---- MODULE Spec2Model ----
(***************************************************************************)
(* FluxGuard: the violation aggregator and decision engine                 *)
(* (src/integrity_check.py, src/fluxguard/integrity_check.py) as a state   *)
(* machine, and its numeric helpers as operators.                          *)
(*                                                                         *)
(* Numbers.  Python floats are modelled by exact rationals [num, den]      *)
(* (den > 0, lowest terms).  Quantities that enter a division are integers *)
(* counted in a unit common to numerator and denominator (scores in        *)
(* hundredths, entropy variances in thousandths, counts in ones), so the   *)
(* quotient is the unit-free rational.  Weights are in tenths, thresholds  *)
(* in hundredths.                                                          *)
(***************************************************************************)
EXTENDS Integers, Sequences, FiniteSets, TLC

VARIABLES
    pc,            \* position of main(): "start", "parsed", "loaded", "null", "void",
                   \* "drift", "weights", "written", "exit"
    variant,       \* "root" = src/integrity_check.py, "pkg" = src/fluxguard/integrity_check.py
    args,          \* the parsed command line
    fs,            \* the summary files under --ci-out: path name -> JSON document or Absent
    null,          \* loaded nulltrace summary (dict) or None
    null_path,     \* path the nulltrace summary was read from, or None
    void,          \* loaded voidmark summary (dict) or None
    void_path,     \* path the voidmark summary was read from, or None
    v_null, v_drift, v_void,       \* the three violations (rationals)
    null_details, void_details, drift_details,   \* the report's component details
    weights,       \* parsed weights <<w_null, w_drift, w_void>> (rationals) or None
    report,        \* the JSON report written to --output, or None
    alerts,        \* alert deliveries attempted, in order
    exit_code,     \* process exit status: -1 while running, else 0, 1 or 3
    failure,       \* why the run failed: "none", "weights" (SystemExit with the
                   \* message), "exception" (uncaught ValueError/TypeError)
    trace,         \* the steps main() has performed, in order
    calc           \* a helper applied on its own: [fn, in, out], or None

vars == <<pc, variant, args, fs, null, null_path, void, void_path, v_null, v_drift,
          v_void, null_details, void_details, drift_details, weights, report, alerts,
          exit_code, failure, trace, calc>>

----------------------------------------------------------------------------
(* Rationals *)

Abs(x) == IF x < 0 THEN -x ELSE x

Max(a, b) == IF a >= b THEN a ELSE b

Min(a, b) == IF a <= b THEN a ELSE b

RECURSIVE GCD(_, _)
GCD(a, b) == IF b = 0 THEN a ELSE GCD(b, a % b)

\* The rational n/d in lowest terms with a positive denominator (d # 0).
Rat(n, d) ==
    LET g == GCD(Abs(n), Abs(d))
        s == IF d < 0 THEN -1 ELSE 1
    IN  [num |-> (s * n) \div g, den |-> (s * d) \div g]

Zero == [num |-> 0, den |-> 1]

RAdd(a, b) == Rat(a.num * b.den + b.num * a.den, a.den * b.den)

RSub(a, b) == Rat(a.num * b.den - b.num * a.den, a.den * b.den)

RMul(a, b) == Rat(a.num * b.num, a.den * b.den)

RLe(a, b) == a.num * b.den <= b.num * a.den

RLt(a, b) == a.num * b.den < b.num * a.den

\* Python's max(a, b): b only when b > a.
RMax(a, b) == IF RLt(a, b) THEN b ELSE a

RAbs(a) == [num |-> Abs(a.num), den |-> a.den]

----------------------------------------------------------------------------
(* JSON values and Python's None *)

None == [t |-> "none", v |-> 0]

JNum(n) == [t |-> "num", v |-> n]

JStr == [t |-> "str", v |-> 0]

JDict(d) == [t |-> "dict", v |-> d]

EmptyDict == [k \in {} |-> None]

\* dict.get(k): the value, or None when the key is missing.
Get(d, k) == IF k \in DOMAIN d THEN d[k] ELSE None

IsDict(x) == x.t = "dict"

\* Python truthiness of an Optional[dict]: None and {} are both falsy.
Truthy(x) == x.t = "dict" /\ DOMAIN x.v # {}

JNaN == [t |-> "nan", v |-> 0]

Absent == [t |-> "absent", v |-> 0]

NoPath == "none"

----------------------------------------------------------------------------
(* Numeric helpers *)

\* math.isclose's default rel_tol = 1e-09, as its inverse; abs_tol defaults to 0.
RelTolInv == 1000000000

AbsTol == 0

\* math.isclose(a, b) on integers counted in one unit:
\* abs(a-b) <= max(rel_tol * max(abs(a), abs(b)), abs_tol).  For an integer x,
\* x <= y / k  iff  x <= y \div k, so the floor loses nothing.
isclose(a, b) == Abs(a - b) <= Max(Max(Abs(a), Abs(b)) \div RelTolInv, AbsTol)

\* safe_div / _safe_div: num and den are integers in a common unit.
safe_div(num, den) ==
    IF den = 0 \/ isclose(den, 0) THEN Zero ELSE Rat(num, den)

\* _coerce_float(x, default): float(x) when that succeeds and is finite.
coerce_float(x, default) == IF x.t = "num" THEN x ELSE default

\* _coerce_int(x, default): int(x) when that succeeds (counts are whole numbers).
coerce_int(x, default) == IF x.t = "num" THEN x.v ELSE default

\* float(x) as the packaged front-end calls it: raises on None, a non-numeric
\* string or a dict; NaN converts.
FloatRaises(x) == x.t \notin {"num", "nan"}

\* int(x): raises also on NaN.
IntRaises(x) == x.t # "num"

----------------------------------------------------------------------------
(* Summary loaders *)

NullCandidates == <<"nulltrace/nulltrace_summary.json", "nulltrace/fluxguard_summary.json">>

VoidCandidates == <<"voidmark/fluxguard_summary.json", "voidmark/voidmark_summary.json",
                    "voidmark/vault/voidmark_mark.json">>

Exists(f, p) == f[p].t # "absent"

Found(val, path) == [val |-> val, path |-> path]

NotFound == [val |-> None, path |-> NoPath]

\* _try_load_nulltrace_summary: the first existing candidate decides.
RECURSIVE try_load_nulltrace_summary_from(_, _)
try_load_nulltrace_summary_from(f, i) ==
    IF i > Len(NullCandidates) THEN NotFound
    ELSE LET p == NullCandidates[i]
             j == f[p].v
         IN  IF ~Exists(f, p) THEN try_load_nulltrace_summary_from(f, i + 1)
             ELSE IF "nulltrace" \in DOMAIN j /\ IsDict(j["nulltrace"])
                  THEN Found(j["nulltrace"], p)
                  ELSE Found(f[p], p)

try_load_nulltrace_summary(f) == try_load_nulltrace_summary_from(f, 1)

BaseName(p) ==
    IF p \in {"nulltrace/fluxguard_summary.json", "voidmark/fluxguard_summary.json"}
    THEN "fluxguard_summary.json"
    ELSE IF p = "voidmark/vault/voidmark_mark.json" THEN "voidmark_mark.json"
    ELSE IF p = "voidmark/voidmark_summary.json" THEN "voidmark_summary.json"
    ELSE "nulltrace_summary.json"

\* _try_load_voidmark_summary: a candidate that exists but matches no layout is
\* passed over and the next one is tried.
RECURSIVE try_load_voidmark_summary_from(_, _)
try_load_voidmark_summary_from(f, i) ==
    IF i > Len(VoidCandidates) THEN NotFound
    ELSE LET p == VoidCandidates[i]
             j == f[p].v
             vm == Get(j, "voidmark")
         IN  IF ~Exists(f, p) THEN try_load_voidmark_summary_from(f, i + 1)
             ELSE IF BaseName(p) = "fluxguard_summary.json"
                     /\ IsDict(vm) /\ IsDict(Get(vm.v, "summary"))
                  THEN Found(vm.v["summary"], p)
             ELSE IF IsDict(Get(j, "summary"))
                  THEN Found(j["summary"], p)
             ELSE IF {"var_entropy_bits", "mean_entropy_bits"} \subseteq DOMAIN j
                  THEN Found(f[p], p)
             ELSE try_load_voidmark_summary_from(f, i + 1)

try_load_voidmark_summary(f) == try_load_voidmark_summary_from(f, 1)

\* try_load_nulltrace of the packaged front-end: the first file is returned whole,
\* the second only through its "nulltrace" entry.  It returns no path.
try_load_nulltrace(f) ==
    LET p == NullCandidates[1]
        p2 == NullCandidates[2]
    IN  IF Exists(f, p) THEN Found(f[p], NoPath)
        ELSE IF Exists(f, p2) /\ IsDict(Get(f[p2].v, "nulltrace"))
             THEN Found(f[p2].v["nulltrace"], NoPath)
        ELSE NotFound

\* try_load_voidmark of the packaged front-end.
try_load_voidmark(f) ==
    LET p == VoidCandidates[1]
        p2 == VoidCandidates[2]
        vm == Get(f[p].v, "voidmark")
    IN  IF Exists(f, p) /\ IsDict(vm) /\ IsDict(Get(vm.v, "summary"))
        THEN Found(vm.v["summary"], NoPath)
        ELSE IF Exists(f, p2) THEN Found(f[p2], NoPath)
        ELSE NotFound

----------------------------------------------------------------------------
(* Mean-z-shift drift over two CSV tables.  A table is a sequence of rows; a  *)
(* row maps column names to cells: JNum(n) for text that float() parses, JStr  *)
(* for other text, Blank for "", None for a field the row lacks.               *)

Blank == [t |-> "blank", v |-> 0]

\* Resolution of the modelled math.sqrt when the root is not rational.
SqrtScale == 1000

RECURSIVE ISqrtBetween(_, _, _)
\* The largest r in lo..hi with r*r <= n (lo*lo <= n).
ISqrtBetween(n, lo, hi) ==
    IF lo >= hi THEN lo
    ELSE LET mid == (lo + hi + 1) \div 2
         IN  IF mid * mid <= n THEN ISqrtBetween(n, mid, hi)
             ELSE ISqrtBetween(n, lo, mid - 1)

ISqrt(n) == ISqrtBetween(n, 0, Min(n, 46340))

\* math.sqrt of a rational r >= 0: exact when r is the square of a rational,
\* else rounded down to 1/SqrtScale.
sqrt(r) ==
    LET a == ISqrt(r.num)
        b == ISqrt(r.den)
    IN  IF a * a = r.num /\ b * b = r.den THEN Rat(a, b)
        ELSE Rat(ISqrt((r.num * SqrtScale * SqrtScale) \div r.den), SqrtScale)

RECURSIVE SumSeq(_)
SumSeq(s) == IF s = <<>> THEN 0 ELSE Head(s) + SumSeq(Tail(s))

RECURSIVE SumSqSeq(_)
SumSqSeq(s) == IF s = <<>> THEN 0 ELSE Head(s) * Head(s) + SumSqSeq(Tail(s))

\* Default max_rows of _numeric_means_and_stds.
MaxRowsDefault == 200000

RECURSIVE ColumnValues(_, _, _, _)
\* The values float() parses in column k of the first max_rows rows, from row i on.
ColumnValues(table, k, i, max_rows) ==
    IF i > Len(table) \/ i - 1 >= max_rows THEN <<>>
    ELSE LET rest == ColumnValues(table, k, i + 1, max_rows)
         IN  IF k \in DOMAIN table[i] /\ table[i][k].t = "num"
             THEN <<table[i][k].v>> \o rest
             ELSE rest

TableColumns(table) == UNION {DOMAIN table[i] : i \in 1..Len(table)}

\* _numeric_means_and_stds / numeric_means_and_stds: population mean and std of
\* every column with at least 2 numeric values.
numeric_means_and_stds(table, max_rows) ==
    LET vals(k) == ColumnValues(table, k, 1, max_rows)
        kept == {k \in TableColumns(table) : Len(vals(k)) > 1}
        mu(k) == Rat(SumSeq(vals(k)), Len(vals(k)))
        var(k) == RMax(Zero, RSub(Rat(SumSqSeq(vals(k)), Len(vals(k))),
                                  RMul(mu(k), mu(k))))
    IN  [means |-> [k \in kept |-> mu(k)], stds |-> [k \in kept |-> sqrt(var(k))]]

\* abs(curr_means[col] - mu_base) / sd for a column the loop does not skip.
ZShift(base, curr, col) ==
    LET d == RAbs(RSub(curr.means[col], base.means[col]))
        sd == base.stds[col]
    IN  Rat(d.num * sd.den, d.den * sd.num)

RECURSIVE RMaxOver(_, _)
\* zmax = max(zmax, z) over a set of rationals, starting from acc.
RMaxOver(S, acc) ==
    IF S = {} THEN acc
    ELSE LET z == CHOOSE x \in S : TRUE
         IN  RMaxOver(S \ {z}, RMax(acc, z))

\* _drift_mean_zmax / drift_mean_z.
drift_mean_zmax(baseline, current) ==
    LET base == numeric_means_and_stds(baseline, MaxRowsDefault)
        curr == numeric_means_and_stds(current, MaxRowsDefault)
        cols == {c \in DOMAIN base.means :
                    c \in DOMAIN curr.means /\ RLt(Zero, base.stds[c])}
    IN  RMaxOver({ZShift(base, curr, c) : c \in cols}, Zero)

----------------------------------------------------------------------------
(* The three violations and their detail records *)

NotFoundNull == "nulltrace summary not found"

NotFoundVoid == "voidmark summary not found"

PathOrNone(p) == IF p = NoPath THEN "None" ELSE p

\* A float as the report shows it: None for NaN (root front-end, min_score).
NoneIfNaN(x) == IF x.t = "nan" THEN None ELSE x

\* Mutant: auto never looks at min_score and always takes the failure ratio.
null_mode_used_ratio_only(requested, min_score) ==
    IF requested = "auto" THEN "failed_ratio" ELSE requested

\* if mode == "auto": min_score when the summary gave a finite one, else failed_ratio.
null_mode_used(requested, min_score) ==
    IF requested = "auto"
    THEN (IF min_score.t # "nan" THEN "min_score" ELSE "failed_ratio")
    ELSE requested

\* Mutant: a missing summary counts as a full violation.
null_not_found_fail_closed(path) ==
    [v |-> Rat(1, 1), details |-> [source |-> PathOrNone(path), error |-> NotFoundNull]]

\* The else branch of "if null:": no violation, and the marker.
null_not_found(path) ==
    [v |-> Zero, details |-> [source |-> PathOrNone(path), error |-> NotFoundNull]]

\* v_null = _safe_div(float(failed_runs), float(runs)) if runs > 0 else 0.0
failed_ratio(failed_runs, runs) ==
    IF runs > 0 THEN safe_div(failed_runs, runs) ELSE Zero

\* main of src/integrity_check.py, "Null violation": nl is the loaded summary
\* (or None), a the parsed arguments.  Scores are in hundredths.
null_violation(nl, path, a) ==
    IF Truthy(nl)
    THEN LET runs == coerce_int(Get(nl.v, "runs"), 0)
             failed_runs == coerce_int(Get(nl.v, "failed_runs"), 0)
             min_score == coerce_float(Get(nl.v, "min_score"), JNaN)
             mode == null_mode_used(a.null_mode, min_score)
             shortfall == mode = "min_score" /\ min_score.t # "nan"
             v == IF shortfall
                  THEN RMax(Zero, safe_div(a.null_min_score - min_score.v, a.null_min_score))
                  ELSE failed_ratio(failed_runs, runs)
         IN  [v |-> v,
              details |-> [source |-> PathOrNone(path), runs |-> runs,
                           failed_runs |-> failed_runs, min_score |-> NoneIfNaN(min_score),
                           target_min_score |-> a.null_min_score,
                           null_mode |-> IF shortfall THEN "min_score" ELSE "failed_ratio"]]
    ELSE null_not_found(path)

\* main of src/integrity_check.py, "Void violation".  Variances are in thousandths.
void_violation(vd, path, a) ==
    IF Truthy(vd)
    THEN LET var_entropy == coerce_float(Get(vd.v, "var_entropy_bits"), JNum(0))
         IN  [v |-> RMax(Zero, safe_div(var_entropy.v - a.void_var_limit, a.void_var_limit)),
              details |-> [source |-> PathOrNone(path), var_entropy_bits |-> var_entropy.v,
                           limit_var_entropy_bits |-> a.void_var_limit]]
    ELSE [v |-> Zero, details |-> [source |-> PathOrNone(path), error |-> NotFoundVoid]]

\* Whether both CSV arguments are given and both files exist.
DriftMeasured(a) ==
    /\ a.baseline_csv.t = "path" /\ a.current_csv.t = "path"
    /\ a.baseline_csv.exists /\ a.current_csv.exists

CsvName(c) == IF c.t = "path" THEN c.name ELSE "None"

\* main of src/integrity_check.py, "Drift violation".
drift_violation(a) ==
    IF DriftMeasured(a)
    THEN LET zmax == drift_mean_zmax(a.baseline_csv.table, a.current_csv.table)
         IN  [v |-> RMax(Zero, zmax),
              details |-> [baseline_csv |-> CsvName(a.baseline_csv),
                           current_csv |-> CsvName(a.current_csv),
                           zmax_mean_shift |-> zmax]]
    ELSE [v |-> Zero,
          details |-> [note |-> "no baseline/current csv provided or files missing, drift set to 0",
                       baseline_csv |-> CsvName(a.baseline_csv),
                       current_csv |-> CsvName(a.current_csv)]]

\* main of src/fluxguard/integrity_check.py, "violation nulltrace": always the
\* shortfall form, min_score defaulting to 1.0; float()/int() may raise.
pkg_null_raises(nl) ==
    /\ Truthy(nl)
    /\ \/ "min_score" \in DOMAIN nl.v /\ FloatRaises(nl.v["min_score"])
       \/ "runs" \in DOMAIN nl.v /\ IntRaises(nl.v["runs"])
       \/ "failed_runs" \in DOMAIN nl.v /\ IntRaises(nl.v["failed_runs"])

pkg_null_violation(nl, a) ==
    IF Truthy(nl)
    THEN LET min_score == IF "min_score" \in DOMAIN nl.v THEN nl.v["min_score"] ELSE JNum(100)
             \* max(0.0, nan) is 0.0: nan > 0.0 is False
             v == IF min_score.t = "nan" THEN Zero
                  ELSE RMax(Zero, safe_div(a.null_min_score - min_score.v, a.null_min_score))
         IN  [v |-> v,
              details |-> [min_score |-> min_score, target_min_score |-> a.null_min_score,
                           v_null |-> v,
                           runs |-> IF "runs" \in DOMAIN nl.v THEN nl.v["runs"].v ELSE 0,
                           failed_runs |-> IF "failed_runs" \in DOMAIN nl.v
                                           THEN nl.v["failed_runs"].v ELSE 0]]
    ELSE [v |-> Zero, details |-> [error |-> NotFoundNull]]

\* main of src/fluxguard/integrity_check.py, "violation voidmark".
pkg_void_raises(vd) ==
    Truthy(vd) /\ "var_entropy_bits" \in DOMAIN vd.v /\ FloatRaises(vd.v["var_entropy_bits"])

pkg_void_violation(vd, a) ==
    IF Truthy(vd)
    THEN LET var_e == IF "var_entropy_bits" \in DOMAIN vd.v
                      THEN vd.v["var_entropy_bits"] ELSE JNum(0)
             v == IF var_e.t = "nan" THEN Zero
                  ELSE RMax(Zero, safe_div(var_e.v - a.void_var_limit, a.void_var_limit))
         IN  [v |-> v,
              details |-> [var_entropy_bits |-> var_e, limit_var_entropy_bits |-> a.void_var_limit,
                           v_void |-> v]]
    ELSE [v |-> Zero, details |-> [error |-> NotFoundVoid]]

\* main of src/fluxguard/integrity_check.py, "violation drift".
pkg_drift_violation(a) ==
    IF DriftMeasured(a)
    THEN LET zmax == drift_mean_zmax(a.baseline_csv.table, a.current_csv.table)
         IN  [v |-> RMax(Zero, zmax),
              details |-> [baseline_csv |-> CsvName(a.baseline_csv),
                           current_csv |-> CsvName(a.current_csv),
                           zmax_mean_shift |-> zmax, v_drift |-> RMax(Zero, zmax)]]
    ELSE [v |-> Zero,
          details |-> [note |-> "no baseline/current csv provided, drift set to 0",
                       v_drift |-> Zero]]

----------------------------------------------------------------------------
(* Weights, score, decision *)

\* float(parts[i]) of a weight written in tenths.
WeightValue(part) == Rat(part.v, 10)

\* Mutant: w_drift and w_void applied to each other's violation.
compute_inco_weights_swapped(vn, vdr, vv, w) ==
    RAdd(RAdd(RMul(w[1], vn), RMul(w[3], vdr)), RMul(w[2], vv))

\* Mutant: the drift term is subtracted.
compute_inco_drift_subtracted(vn, vdr, vv, w) ==
    RAdd(RSub(RMul(w[1], vn), RMul(w[2], vdr)), RMul(w[3], vv))

\* compute_inco; the root front-end has the same expression inline.
compute_inco(vn, vdr, vv, w) ==
    RAdd(RAdd(RMul(w[1], vn), RMul(w[2], vdr)), RMul(w[3], vv))

\* Mutant: the comparison is not strict.
Decision_non_strict(inco, threshold) ==
    IF RLe(Rat(threshold, 100), inco) THEN "BLOCK" ELSE "OK"

\* "BLOCK" if inco > float(args.threshold) else "OK"; the threshold is in hundredths.
Decision(inco, threshold) == IF RLt(Rat(threshold, 100), inco) THEN "BLOCK" ELSE "OK"

----------------------------------------------------------------------------
(* Inputs: the files under --ci-out, the CSV tables, the command line *)

NullDoc1 == [runs |-> JNum(5), failed_runs |-> JNum(2), min_score |-> JNum(6)]

NullDoc2 == [runs |-> JNum(5), failed_runs |-> JNum(0), min_score |-> JNum(20)]

NullDoc3 == [runs |-> JNum(4), failed_runs |-> JNum(1)]

NullDoc4 == [runs |-> JNum(4), failed_runs |-> JNum(-1), min_score |-> None]

NullDoc5 == [runs |-> JNum(2), failed_runs |-> JNum(5), min_score |-> JNaN]

NullDoc6 == [runs |-> JNum(0), failed_runs |-> JNum(3), min_score |-> JStr]

\* What nulltrace/nulltrace_summary.json and nulltrace/fluxguard_summary.json hold.
NullFiles == <<
    <<Absent, Absent>>,
    <<JDict(NullDoc1), Absent>>,
    <<JDict(NullDoc2), Absent>>,
    <<JDict(NullDoc3), Absent>>,
    <<JDict(NullDoc4), Absent>>,
    <<JDict(NullDoc5), Absent>>,
    <<JDict(NullDoc6), Absent>>,
    <<JDict(EmptyDict), JDict([nulltrace |-> JDict(NullDoc1)])>>,
    <<Absent, JDict([nulltrace |-> JDict(NullDoc1)])>> >>

VoidDoc1 == [var_entropy_bits |-> JNum(12), mean_entropy_bits |-> JNum(500)]

VoidDoc2 == [var_entropy_bits |-> JNum(5), mean_entropy_bits |-> JNum(500)]

VoidDoc3 == [var_entropy_bits |-> JNum(30), mean_entropy_bits |-> JNum(500)]

VoidDoc4 == [var_entropy_bits |-> JStr, mean_entropy_bits |-> JNum(500)]

\* What voidmark/fluxguard_summary.json, voidmark/voidmark_summary.json and
\* voidmark/vault/voidmark_mark.json hold.
VoidFiles == <<
    <<Absent, Absent, Absent>>,
    <<Absent, JDict(VoidDoc1), Absent>>,
    <<JDict([voidmark |-> JDict([summary |-> JDict(VoidDoc2)])]), Absent, Absent>>,
    <<Absent, Absent, JDict([summary |-> JDict(VoidDoc3)])>>,
    <<Absent, JDict([seed |-> JNum(1)]), Absent>>,
    <<Absent, JDict([summary |-> JDict(EmptyDict)]), Absent>>,
    <<Absent, JDict(VoidDoc4), Absent>> >>

FileSystem(nf, vf) ==
    (NullCandidates[1] :> nf[1]) @@ (NullCandidates[2] :> nf[2]) @@
    (VoidCandidates[1] :> vf[1]) @@ (VoidCandidates[2] :> vf[2]) @@
    (VoidCandidates[3] :> vf[3])

\* Every nulltrace layout beside an absent or a plain voidmark summary, and every
\* voidmark layout beside an absent or a plain nulltrace summary (the two loaders
\* read disjoint files).
FsChoices == {c \in (1..Len(NullFiles)) \X (1..Len(VoidFiles)) : c[1] <= 2 \/ c[2] <= 2}

Row(a, b) == [a |-> a, b |-> b]

\* column a: mean 2, std 2; column b has one numeric value only
Table1 == <<Row(JNum(0), JStr), Row(JNum(4), JNum(7))>>

\* column a: mean 3, std 1; column b: mean 5, std 0
Table2 == <<Row(JNum(2), JNum(5)), Row(JNum(4), JNum(5)), Row(Blank, None)>>

NoCsv == [t |-> "none"]

CsvFile(name, table) == [t |-> "path", name |-> name, exists |-> TRUE, table |-> table]

CsvMissing(name) == [t |-> "path", name |-> name, exists |-> FALSE, table |-> <<>>]

\* --baseline-csv and --current-csv together with what the paths hold.
CsvArgs == <<
    <<NoCsv, NoCsv>>,
    <<CsvFile("base.csv", Table1), CsvMissing("curr.csv")>>,
    <<CsvFile("base.csv", Table1), CsvFile("curr.csv", Table2)>>,
    <<CsvFile("base.csv", Table1), CsvFile("curr.csv", Table1)>> >>

\* --weights after split(","): each part a decimal literal in tenths, or text
\* float() rejects.
WeightArgs == <<
    <<JNum(3), JNum(4), JNum(3)>>,
    <<JNum(-5), JNum(4), JNum(3)>>,
    <<JNum(3), JNum(4)>>,
    <<JNum(3), JNum(4), JNum(3), JNum(0)>>,
    <<JStr, JNum(4), JNum(3)>> >>

\* --threshold, in hundredths (argparse type=float accepts any sign).
Thresholds == {-10, 25, 38}

\* --null-min-score (hundredths) and --void-var-limit (thousandths): the defaults
\* 0.10 and 0.01, and each target degenerate (0) in turn.
Targets == {<<10, 10>>, <<0, 10>>, <<10, 0>>}

NullModes(vt) == IF vt = "root" THEN {"auto", "failed_ratio", "min_score"} ELSE {"auto"}

Variants == {"root", "pkg"}


AlertConfigs(vt) == IF vt = "root" THEN {{}, {"slack", "email"}} ELSE {{}}

----------------------------------------------------------------------------
(* main() *)

Init ==
    /\ pc = "start"
    /\ variant \in Variants
    /\ \E c \in FsChoices : fs = FileSystem(NullFiles[c[1]], VoidFiles[c[2]])
    /\ args = None
    /\ null = None /\ null_path = NoPath
    /\ void = None /\ void_path = NoPath
    /\ v_null = Zero /\ v_drift = Zero /\ v_void = Zero
    /\ null_details = None /\ void_details = None /\ drift_details = None
    /\ weights = None
    /\ report = None
    /\ alerts = <<>>
    /\ exit_code = -1
    /\ failure = "none"
    /\ trace = <<>>
    /\ calc = None

\* args = ap.parse_args()
ParseArgs ==
    /\ pc = "start"
    /\ \E th \in Thresholds, w \in 1..Len(WeightArgs), tg \in Targets,
          mode \in NullModes(variant), c \in 1..Len(CsvArgs),
          al \in AlertConfigs(variant) :
           args' = [threshold |-> th, weights |-> WeightArgs[w], null_min_score |-> tg[1],
                    null_mode |-> mode, void_var_limit |-> tg[2],
                    baseline_csv |-> CsvArgs[c][1], current_csv |-> CsvArgs[c][2],
                    alert_channels |-> al]
    /\ pc' = "parsed"
    /\ trace' = Append(trace, "parse_args")
    /\ UNCHANGED <<calc, variant, fs, null, null_path, void, void_path, v_null, v_drift, v_void,
                   null_details, void_details, drift_details, weights, report, alerts,
                   exit_code, failure>>

\* null, null_path = _try_load_nulltrace_summary(ci_out); void likewise
LoadSummaries ==
    /\ pc = "parsed"
    /\ LET n == IF variant = "root" THEN try_load_nulltrace_summary(fs)
                ELSE try_load_nulltrace(fs)
           v == IF variant = "root" THEN try_load_voidmark_summary(fs)
                ELSE try_load_voidmark(fs)
       IN  /\ null' = n.val /\ null_path' = n.path
           /\ void' = v.val /\ void_path' = v.path
    /\ pc' = "loaded"
    /\ trace' = Append(trace, "load_summaries")
    /\ UNCHANGED <<calc, variant, args, fs, v_null, v_drift, v_void, null_details, void_details,
                   drift_details, weights, report, alerts, exit_code, failure>>

\* An uncaught exception ends the run with a traceback and status 1.
Crash(step) ==
    /\ pc' = "exit"
    /\ exit_code' = 1
    /\ failure' = "exception"
    /\ trace' = Append(trace, step)

NullViolation ==
    /\ pc = "loaded"
    /\ IF variant = "pkg" /\ pkg_null_raises(null)
       THEN /\ Crash("null_violation")
            /\ UNCHANGED <<v_null, null_details>>
       ELSE /\ LET r == IF variant = "root" THEN null_violation(null, null_path, args)
                        ELSE pkg_null_violation(null, args)
               IN  v_null' = r.v /\ null_details' = r.details
            /\ pc' = "null"
            /\ trace' = Append(trace, "null_violation")
            /\ UNCHANGED <<exit_code, failure>>
    /\ UNCHANGED <<calc, variant, args, fs, null, null_path, void, void_path, v_drift, v_void,
                   void_details, drift_details, weights, report, alerts>>

VoidViolation ==
    /\ pc = "null"
    /\ IF variant = "pkg" /\ pkg_void_raises(void)
       THEN /\ Crash("void_violation")
            /\ UNCHANGED <<v_void, void_details>>
       ELSE /\ LET r == IF variant = "root" THEN void_violation(void, void_path, args)
                        ELSE pkg_void_violation(void, args)
               IN  v_void' = r.v /\ void_details' = r.details
            /\ pc' = "void"
            /\ trace' = Append(trace, "void_violation")
            /\ UNCHANGED <<exit_code, failure>>
    /\ UNCHANGED <<calc, variant, args, fs, null, null_path, void, void_path, v_null, v_drift,
                   null_details, drift_details, weights, report, alerts>>

DriftViolation ==
    /\ pc = "void"
    /\ LET r == IF variant = "root" THEN drift_violation(args) ELSE pkg_drift_violation(args)
       IN  v_drift' = r.v /\ drift_details' = r.details
    /\ pc' = "drift"
    /\ trace' = Append(trace, "drift_violation")
    /\ UNCHANGED <<calc, variant, args, fs, null, null_path, void, void_path, v_null, v_void,
                   null_details, void_details, weights, report, alerts, exit_code, failure>>

\* A weights check that only refuses fewer than three parts, and reads the first
\* three of a longer list.
ParseWeights_AtLeastThree ==
    /\ pc = "drift"
    /\ trace' = Append(trace, "parse_weights")
    /\ IF Len(args.weights) < 3
       THEN /\ pc' = "exit" /\ exit_code' = 1 /\ failure' = "weights"
            /\ UNCHANGED weights
       ELSE IF \E i \in 1..3 : args.weights[i].t # "num"
       THEN /\ pc' = "exit" /\ exit_code' = 1 /\ failure' = "exception"
            /\ UNCHANGED weights
       ELSE /\ weights' = [i \in 1..3 |-> WeightValue(args.weights[i])]
            /\ pc' = "weights"
            /\ UNCHANGED <<exit_code, failure>>
    /\ UNCHANGED <<calc, variant, args, fs, null, null_path, void, void_path, v_null, v_drift,
                   v_void, null_details, void_details, drift_details, report, alerts>>

\* parts = [p.strip() for p in args.weights.split(",")]; len(parts) != 3 raises
\* SystemExit with a message (status 1); float(part) may raise ValueError.
ParseWeights ==
    /\ pc = "drift"
    /\ trace' = Append(trace, "parse_weights")
    /\ IF Len(args.weights) # 3
       THEN /\ pc' = "exit" /\ exit_code' = 1 /\ failure' = "weights"
            /\ UNCHANGED weights
       ELSE IF \E i \in 1..3 : args.weights[i].t # "num"
       THEN /\ pc' = "exit" /\ exit_code' = 1 /\ failure' = "exception"
            /\ UNCHANGED weights
       ELSE /\ weights' = [i \in 1..3 |-> WeightValue(args.weights[i])]
            /\ pc' = "weights"
            /\ UNCHANGED <<exit_code, failure>>
    /\ UNCHANGED <<calc, variant, args, fs, null, null_path, void, void_path, v_null, v_drift,
                   v_void, null_details, void_details, drift_details, report, alerts>>

\* inco, payload, json.dump(payload, f)
Payload ==
    LET inco == compute_inco(v_null, v_drift, v_void, weights)
    IN  [threshold |-> args.threshold,
         weights |-> [w_null |-> weights[1], w_drift |-> weights[2], w_void |-> weights[3]],
         violations |-> [v_null |-> v_null, v_drift |-> v_drift, v_void |-> v_void],
         incoherence_score |-> inco,
         components |-> [nulltrace |-> null_details, voidmark |-> void_details,
                         drift |-> drift_details],
         decision |-> Decision(inco, args.threshold)]

WriteReport ==
    /\ pc = "weights"
    /\ report' = Payload
    /\ pc' = "written"
    /\ trace' = Append(trace, "write_report")
    /\ UNCHANGED <<calc, variant, args, fs, null, null_path, void, void_path, v_null, v_drift,
                   v_void, null_details, void_details, drift_details, weights, alerts,
                   exit_code, failure>>

AlertOrder == <<"slack", "webhook", "email">>

RECURSIVE AlertMsgs(_, _, _)
\* alert_msgs: one entry per configured channel, in the order the code tries them;
\* ok[c] is whether the delivery to c succeeded.
AlertMsgs(channels, ok, i) ==
    IF i > Len(AlertOrder) THEN <<>>
    ELSE LET c == AlertOrder[i]
             rest == AlertMsgs(channels, ok, i + 1)
         IN  IF c \in channels THEN <<[type |-> c, ok |-> ok[c]]>> \o rest ELSE rest

\* A guard that lets the alert branch run on every decision.
Blocked_always(inco, threshold) == TRUE

\* if inco > float(args.threshold): the guard of the alert branch.
Blocked(inco, threshold) == RLt(Rat(threshold, 100), inco)

\* "Alerting only on BLOCK", then SystemExit(3); else main returns.
AlertAndExit ==
    /\ pc = "written"
    /\ IF Blocked(report.incoherence_score, args.threshold)
       THEN /\ \E ok \in [args.alert_channels -> BOOLEAN] :
                   alerts' = AlertMsgs(args.alert_channels, ok, 1)
            /\ exit_code' = 3
       ELSE /\ exit_code' = 0
            /\ UNCHANGED alerts
    /\ pc' = "exit"
    /\ trace' = Append(trace, "exit")
    /\ UNCHANGED <<calc, variant, args, fs, null, null_path, void, void_path, v_null, v_drift,
                   v_void, null_details, void_details, drift_details, weights, report,
                   failure>>

Next ==
    \/ ParseArgs
    \/ LoadSummaries
    \/ NullViolation
    \/ VoidViolation
    \/ DriftViolation
    \/ ParseWeights
    \/ WriteReport
    \/ AlertAndExit

Spec == Init /\ [][Next]_vars


----------------------------------------------------------------------------
(* safe_div applied on its own.  Numerator and denominator are whole numbers  *)
(* of one tiny unit u, chosen so that machine epsilon is EpsUnits * u.         *)

\* Machine epsilon, in units.
EpsUnits == 4

\* Denominators range over -MaxDen..MaxDen units, numerators over -MaxNum..MaxNum.
MaxDen == 6

MaxNum == 3

\* main() idle while a helper is applied on its own.
MainIdle ==
    /\ variant = "root"
    /\ fs = FileSystem(NullFiles[1], VoidFiles[1])
    /\ args = None
    /\ null = None /\ null_path = NoPath
    /\ void = None /\ void_path = NoPath
    /\ v_null = Zero /\ v_drift = Zero /\ v_void = Zero
    /\ null_details = None /\ void_details = None /\ drift_details = None
    /\ weights = None
    /\ report = None
    /\ alerts = <<>>
    /\ exit_code = -1
    /\ failure = "none"
    /\ trace = <<>>

mainVars == <<variant, args, fs, null, null_path, void, void_path, v_null, v_drift,
              v_void, null_details, void_details, drift_details, weights, report, alerts,
              exit_code, failure, trace>>

InitDiv ==
    /\ pc = "calc"
    /\ MainIdle
    /\ \E num \in -MaxNum..MaxNum, den \in -MaxDen..MaxDen :
           calc = [fn |-> "safe_div", in |-> <<num, den>>, out |-> None]

ApplySafeDiv ==
    /\ pc = "calc"
    /\ calc.fn = "safe_div"
    /\ calc' = [calc EXCEPT !.out = safe_div(calc.in[1], calc.in[2])]
    /\ pc' = "done"
    /\ UNCHANGED mainVars

SpecDiv == InitDiv /\ [][ApplySafeDiv]_vars


----------------------------------------------------------------------------
(* Properties of the aggregator *)

\* A report has been written.
HasReport == "decision" \in DOMAIN report

\* --weights splits into three parts that float() parses.
ValidWeights(a) == Len(a.weights) = 3 /\ \A i \in 1..3 : a.weights[i].t = "num"

NullAbsent == \A i \in 1..Len(NullCandidates) : fs[NullCandidates[i]].t = "absent"

VoidAbsent == \A i \in 1..Len(VoidCandidates) : fs[VoidCandidates[i]].t = "absent"

\* --baseline-csv or --current-csv is not given or names no file.
DriftUnavailable ==
    \/ args.baseline_csv.t = "none" \/ ~args.baseline_csv.exists
    \/ args.current_csv.t = "none" \/ ~args.current_csv.exists

Did(step) == \E i \in 1..Len(trace) : trace[i] = step

\* C1: the report's decision is BLOCK exactly when incoherence_score > threshold;
\* the comparison is strict, so a score equal to the threshold is OK.
C1_DecisionIsStrictThreshold ==
    HasReport =>
        LET s == report.incoherence_score
        IN  /\ report.decision \in {"BLOCK", "OK"}
            /\ (report.decision = "BLOCK") <=> (s.num * 100 > report.threshold * s.den)
            /\ (s.num * 100 = report.threshold * s.den) => report.decision = "OK"

\* A report whose score equals its threshold (0.38) and is OK.
C1_Witness_ScoreEqualsThresholdIsOK ==
    /\ HasReport
    /\ report.incoherence_score.num * 100 = report.threshold * report.incoherence_score.den
    /\ report.threshold > 0
    /\ report.decision = "OK"

\* C2: the report's incoherence_score is w_null*v_null + w_drift*v_drift +
\* w_void*v_void of the weights and violations the same report records; violations
\* (0.4, 0.5, 0.2) under weights (0.3, 0.4, 0.3) score 0.38, BLOCK at threshold 0.25.
C2_ScoreIsWeightedSumOfReport ==
    HasReport =>
        LET w == report.weights
            v == report.violations
            s == report.incoherence_score
            example == /\ v.v_null = Rat(4, 10) /\ v.v_drift = Rat(5, 10)
                       /\ v.v_void = Rat(2, 10)
                       /\ w.w_null = Rat(3, 10) /\ w.w_drift = Rat(4, 10)
                       /\ w.w_void = Rat(3, 10)
        IN  /\ RSub(RSub(s, RMul(w.w_void, v.v_void)), RMul(w.w_drift, v.v_drift))
                  = RMul(w.w_null, v.v_null)
            /\ v.v_null = v_null /\ v.v_drift = v_drift /\ v.v_void = v_void
            /\ example => s = Rat(38, 100)
            /\ (example /\ report.threshold = 25) => report.decision = "BLOCK"

\* The end-to-end example: (0.4, 0.5, 0.2) x (0.3, 0.4, 0.3) at threshold 0.25.
C2_Witness_ExampleBlocks ==
    /\ HasReport
    /\ report.violations = [v_null |-> Rat(4, 10), v_drift |-> Rat(5, 10), v_void |-> Rat(2, 10)]
    /\ report.weights = [w_null |-> Rat(3, 10), w_drift |-> Rat(4, 10), w_void |-> Rat(3, 10)]
    /\ report.threshold = 25
    /\ report.incoherence_score = Rat(38, 100)
    /\ report.decision = "BLOCK"

C4_NotFoundIffNotLocated ==
    HasReport =>
        LET n == report.components.nulltrace
            v == report.components.voidmark
        IN  /\ ("error" \in DOMAIN n) <=> NullAbsent
            /\ ("error" \in DOMAIN v) <=> VoidAbsent
            /\ "error" \in DOMAIN n => DOMAIN n \cap {"runs", "min_score", "null_mode"} = {}
            /\ "error" \in DOMAIN v => DOMAIN v \cap {"var_entropy_bits"} = {}

\* C5: in every report v_null, v_drift and v_void are >= 0, for every null mode and
\* whatever the summaries hold.
C5_ViolationsNonNegative ==
    HasReport =>
        /\ RLe(Zero, report.violations.v_null)
        /\ RLe(Zero, report.violations.v_drift)
        /\ RLe(Zero, report.violations.v_void)

\* C6: safe division returns 0 for every denominator within machine epsilon of zero
\* and num/den only outside that tolerance.
C6_SafeDivZeroWithinEpsilon ==
    (pc = "done" /\ calc.fn = "safe_div") =>
        LET num == calc.in[1]
            den == calc.in[2]
        IN  IF Abs(den) <= EpsUnits
            THEN calc.out = Zero
            ELSE calc.out.num * den = num * calc.out.den

\* C7: in null mode auto the root front-end takes v_null = max(0, (target -
\* min_score)/target) (safe division: 0 for target 0) when the loaded summary gives a
\* finite min_score, else failed_runs/runs (0 when runs <= 0), and records the form
\* it used as null_mode.
C7_AutoPrefersShortfall ==
    (variant = "root" /\ Did("null_violation") /\ args.null_mode = "auto" /\ Truthy(null)) =>
        LET ms == Get(null.v, "min_score")
            target == args.null_min_score
            runs == IF Get(null.v, "runs").t = "num" THEN null.v["runs"].v ELSE 0
            failed == IF Get(null.v, "failed_runs").t = "num" THEN null.v["failed_runs"].v ELSE 0
        IN  IF ms.t = "num"
            THEN /\ null_details.null_mode = "min_score"
                 /\ IF target # 0 /\ (target - ms.v) * target > 0
                    THEN v_null.num * target = v_null.den * (target - ms.v)
                    ELSE v_null = Zero
            ELSE /\ null_details.null_mode = "failed_ratio"
                 /\ IF runs > 0
                    THEN v_null.num * runs = v_null.den * failed
                    ELSE v_null = Zero

\* Auto mode with min_score 0.06 under target 0.10: shortfall 0.4, although the
\* failure ratio of the same summary is available too.
C7_Witness_AutoUsesMinScore ==
    /\ variant = "root" /\ Did("null_violation") /\ args.null_mode = "auto" /\ Truthy(null)
    /\ Get(null.v, "min_score") = JNum(6) /\ args.null_min_score = 10
    /\ v_null = Rat(4, 10) /\ null_details.null_mode = "min_score"

\* Amounts by which a violation is raised.
Bumps == {Rat(1, 10), Rat(1, 1), Rat(5, 2)}

\* C8: with weights >= 0, raising one violation and holding the other two never
\* lowers incoherence_score, and never turns BLOCK into OK.
C8_AggregationMonotonic ==
    (HasReport /\ \A i \in 1..3 : RLe(Zero, weights[i])) =>
        \A b \in Bumps :
            LET s == report.incoherence_score
                raised == {compute_inco(RAdd(v_null, b), v_drift, v_void, weights),
                           compute_inco(v_null, RAdd(v_drift, b), v_void, weights),
                           compute_inco(v_null, v_drift, RAdd(v_void, b), weights)}
            IN  \A r \in raised :
                    /\ RLe(s, r)
                    /\ report.decision = "BLOCK" => Decision(r, report.threshold) = "BLOCK"

\* A BLOCK report under non-negative weights with a positive violation.
C8_Witness_BlockWithNonNegativeWeights ==
    /\ HasReport /\ \A i \in 1..3 : RLe(Zero, weights[i])
    /\ RLt(Zero, v_null) /\ RLt(Zero, v_drift)
    /\ report.decision = "BLOCK" /\ report.threshold > 0

\* C9: a negative threshold is a configuration error: the run fails and writes no
\* report, no score, no decision.
C9_NegativeThresholdRejected ==
    (pc # "start" /\ pc # "calc" /\ pc # "done" /\ args.threshold < 0) =>
        /\ ~HasReport
        /\ pc = "exit" => failure # "none"

\* C10: malformed weights (not exactly three parts) fail the run before any summary
\* is loaded, any CSV is read or any violation is computed.
C10_WeightsCheckedBeforeComputation ==
    (pc \notin {"start", "calc", "done"} /\ Len(args.weights) # 3) =>
        /\ ~Did("load_summaries")
        /\ ~Did("null_violation") /\ ~Did("void_violation") /\ ~Did("drift_violation")

\* The report's score exceeds its threshold.
ScoreAboveThreshold ==
    report.incoherence_score.num * 100 > report.threshold * report.incoherence_score.den

\* The packaged front-end raised on a field of a summary that is not a number.
PkgContentCrash ==
    /\ variant = "pkg" /\ failure = "exception"
    /\ pkg_null_raises(null) \/ pkg_void_raises(void)

----------------------------------------------------------------------------
(* Binary floating point.  A Python float operation returns the exact result  *)
(* rounded to the nearest value with a 53-bit significand, ties to even.  The  *)
(* operators below round the same way to a significand of Precision bits, the  *)
(* exponent unbounded; every float operation of the statistics helpers is     *)
(* written Fl(exact result).  NaN is the float that text such as "nan" parses  *)
(* to; every comparison with it is false.                                     *)

\* Bits of the significand.
Precision == 4

\* n / d >= 0 rounded to the nearest integer, ties to even.
RoundHalfEven(n, d) ==
    LET q == n \div d
        rem == n % d
    IN  IF 2 * rem > d \/ (2 * rem = d /\ q % 2 = 1) THEN q + 1 ELSE q

\* The float nearest to the rational r.
Fl(r) ==
    LET RECURSIVE RoundSig(_, _)
        \* n/d > 0 rounded to Precision significant bits
        RoundSig(n, d) ==
            IF n >= d * 2^Precision THEN RMul(Rat(2, 1), RoundSig(n, 2 * d))
            ELSE IF n < d * 2^(Precision - 1) THEN RMul(Rat(1, 2), RoundSig(2 * n, d))
            ELSE Rat(RoundHalfEven(n, d), 1)
        m == RoundSig(Abs(r.num), r.den)
    IN  IF r.num = 0 THEN Zero
        ELSE [num |-> (IF r.num < 0 THEN -1 ELSE 1) * m.num, den |-> m.den]

\* The exact quotient a / b (b # 0).
RDiv(a, b) == Rat(a.num * b.den, a.den * b.num)

\* math.sqrt of a float r >= 0: the root rounded to Precision significant bits.
FSqrt(r) ==
    LET RECURSIVE SqrtSig(_, _)
        SqrtSig(n, d) ==
            IF n >= d * 4^Precision THEN RMul(Rat(2, 1), SqrtSig(n, 4 * d))
            ELSE IF n < d * 4^(Precision - 1) THEN RMul(Rat(1, 2), SqrtSig(4 * n, d))
            ELSE LET m == ISqrt(n \div d)
                     half == d * (4 * m * m + 4 * m + 1)      \* 4d(m + 1/2)^2
                 IN  Rat(IF 4 * n > half \/ (4 * n = half /\ m % 2 = 1) THEN m + 1 ELSE m, 1)
    IN  IF r.num = 0 THEN Zero ELSE SqrtSig(r.num, r.den)

RECURSIVE FSum(_, _)
\* sum() of a sequence of floats: a left fold of float additions from acc.
FSum(s, acc) == IF s = <<>> THEN acc ELSE FSum(Tail(s), Fl(RAdd(acc, Head(s))))

NaN == [num |-> 0, den |-> 0]

IsNaN(r) == r.den = 0

\* a <= b and a < b on floats.
FLe(a, b) == ~IsNaN(a) /\ ~IsNaN(b) /\ RLe(a, b)

FLt(a, b) == ~IsNaN(a) /\ ~IsNaN(b) /\ RLt(a, b)

\* The float operation a op b, op one of + - * /: NaN when an operand is NaN,
\* else the exact result rounded.
FOp(op, a, b) ==
    IF IsNaN(a) \/ IsNaN(b) THEN NaN
    ELSE Fl(CASE op = "+" -> RAdd(a, b)
              [] op = "-" -> RSub(a, b)
              [] op = "*" -> RMul(a, b)
              [] op = "/" -> RDiv(a, b))

----------------------------------------------------------------------------
(* riftlens: Pearson correlation *)

\* pearson_corr(x, y): n is the shorter length; sum(x), sum(y) and the two sums of
\* squares run over the whole of x and of y, the covariance over range(n).  A NaN
\* in x makes mx, vx and cov NaN (in y: my, vy and cov).
pearson_corr(x, y) ==
    LET n == Min(Len(x), Len(y))
        nan_x == \E i \in 1..Len(x) : IsNaN(x[i])
        nan_y == \E i \in 1..Len(y) : IsNaN(y[i])
        mx == Fl(RDiv(FSum(x, Zero), Rat(n, 1)))
        my == Fl(RDiv(FSum(y, Zero), Rat(n, 1)))
        dev(s, m, i) == Fl(RSub(s[i], m))
        vx == FSum([i \in 1..Len(x) |-> Fl(RMul(dev(x, mx, i), dev(x, mx, i)))], Zero)
        vy == FSum([i \in 1..Len(y) |-> Fl(RMul(dev(y, my, i), dev(y, my, i)))], Zero)
        cov == FSum([i \in 1..n |-> Fl(RMul(dev(x, mx, i), dev(y, my, i)))], Zero)
    IN  IF n < 2 THEN Zero
        ELSE IF (~nan_x /\ RLe(vx, Zero)) \/ (~nan_y /\ RLe(vy, Zero)) THEN Zero
        ELSE IF nan_x \/ nan_y THEN NaN
        ELSE Fl(RDiv(cov, FSqrt(Fl(RMul(vx, vy)))))

\* Values of the sample vectors: floats of at most 3 significant bits.
CorrValues == {Zero, Rat(1, 1), Rat(7, 4)}

\* Longest x and longest y of a pearson_corr call.
MaxLenX == 3

MaxLenY == 4

\* All sequences over S of length 0..n.
SeqsUpTo(S, n) == UNION {[1..k -> S] : k \in 0..n}

InitCorr ==
    /\ pc = "calc"
    /\ MainIdle
    /\ \E x \in SeqsUpTo(CorrValues, MaxLenX), y \in SeqsUpTo(CorrValues, MaxLenY) :
           calc = [fn |-> "pearson_corr", in |-> <<x, y>>, out |-> None]

\* pearson_corr(x, y), and with the arguments exchanged as _corr_matrix calls it.
ApplyPearson ==
    /\ pc = "calc"
    /\ calc.fn = "pearson_corr"
    /\ \E swap \in BOOLEAN :
           LET a == IF swap THEN calc.in[2] ELSE calc.in[1]
               b == IF swap THEN calc.in[1] ELSE calc.in[2]
           IN  calc' = [fn |-> "pearson_corr", in |-> <<a, b>>, out |-> pearson_corr(a, b)]
    /\ pc' = "done"
    /\ UNCHANGED mainVars

SpecCorr == InitCorr /\ [][ApplyPearson]_vars

----------------------------------------------------------------------------
(* Properties of pearson_corr *)

CorrDone == pc = "done" /\ calc.fn = "pearson_corr"

\* Number of paired values of the call.
PairedN == Min(Len(calc.in[1]), Len(calc.in[2]))

\* The first PairedN values of argument k are all equal (zero variance).
PairedConstant(k) == \A i, j \in 1..PairedN : calc.in[k][i] = calc.in[k][j]

\* C12: for every pair of sequences pearson_corr returns the Pearson correlation
\* of their paired prefixes of length n = min(len(x), len(y)); values beyond
\* position n do not influence the result.
C12_CorrelationOfPairedPrefixes ==
    CorrDone =>
        calc.out = pearson_corr(SubSeq(calc.in[1], 1, PairedN),
                                SubSeq(calc.in[2], 1, PairedN))

\* C13: pearson_corr returns a value in [-1, 1] for all inputs, of equal or
\* unequal length.
C13_CorrelationWithinUnitInterval ==
    CorrDone => (RLe(Rat(-1, 1), calc.out) /\ RLe(calc.out, Rat(1, 1)))

\* C14: pearson_corr returns exactly 0 when fewer than 2 values are paired or the
\* paired values of either sequence are constant, for equal and unequal lengths.
C14_ZeroWhenPairedValuesConstant ==
    (CorrDone /\ (PairedN < 2 \/ PairedConstant(1) \/ PairedConstant(2))) =>
        calc.out = Zero

----------------------------------------------------------------------------
(* io_utils: numeric extraction, Kolmogorov-Smirnov, Wasserstein, drift tests. *)
(* A row maps column names to cells; r.get(k) of a name the row lacks is None. *)
(* A CSV row with more fields than the header keeps the surplus, a list, under *)
(* the key None (csv.DictReader's restkey).                                    *)

\* The key None of a row with surplus fields.
RestKey == "None (restkey)"

\* The column names of the modelled tables, in the order sorted() gives them.
ColumnOrder == <<"a", "b", "c">>

\* sorted(S) for a set S of row keys: None does not compare with a string.
sorted(S) ==
    IF RestKey \in S /\ S # {RestKey} THEN [raised |-> "TypeError", value |-> <<>>]
    ELSE [raised |-> "none",
          value |-> SelectSeq(ColumnOrder \o <<RestKey>>, LAMBDA k : k \in S)]

\* _to_float(r.get(k)): the float of an int, a float or a parsable string (NaN for
\* "nan"); None for None, a bool, a blank string, a list and any other text.
to_float(row, k) ==
    IF k \notin DOMAIN row THEN None
    ELSE IF row[k].t = "num" THEN JNum(Rat(row[k].v, 1))
    ELSE IF row[k].t = "nan" THEN JNum(NaN)
    ELSE None

\* The floats of column k, in row order: [v for v in col if isinstance(v, (int,
\* float))] in drift_tests, tmp[k] in _pairwise_numeric_vectors.
NumericColumn(rows, k) ==
    LET kept == SelectSeq([i \in 1..Len(rows) |-> to_float(rows[i], k)],
                          LAMBDA c : c.t = "num")
    IN  [i \in 1..Len(kept) |-> kept[i].v]

\* extract_numeric_columns(rows): every key of any row, aligned by index.
extract_numeric_columns(rows) ==
    IF sorted(TableColumns(rows)).raised # "none"
    THEN [raised |-> "TypeError", value |-> <<>>]
    ELSE [raised |-> "none",
          value |-> [k \in TableColumns(rows) |->
                        [i \in 1..Len(rows) |-> to_float(rows[i], k)]]]

\* sorted(x) for a list of fewer than 64 floats, as CPython sorts it: the initial
\* run (reversed when strictly descending), then binary insertion of the rest,
\* every comparison being "<".  (Here and below, v \in {e} names the value of e
\* for the next turn of a loop.)
SortedValues(x) ==
    LET n == Len(x)
        descending == n >= 2 /\ FLt(x[2], x[1])
        RECURSIVE RunLen(_)
        RunLen(i) == IF i >= n THEN n
                     ELSE IF FLt(x[i + 1], x[i]) = descending THEN RunLen(i + 1)
                     ELSE i
        run == RunLen(2)
        start == IF descending
                 THEN [i \in 1..n |-> IF i <= run THEN x[run + 1 - i] ELSE x[i]]
                 ELSE x
        RECURSIVE Pos(_, _, _, _)
        Pos(s, pivot, l, r) ==
            IF l >= r THEN l
            ELSE LET p == l + (r - l) \div 2
                 IN  IF FLt(pivot, s[p + 1]) THEN Pos(s, pivot, l, p)
                     ELSE Pos(s, pivot, p + 1, r)
        RECURSIVE BinarySort(_, _)
        BinarySort(s, k) ==
            IF k > n THEN s
            ELSE LET at == Pos(s, s[k], 0, k - 1)
                 IN  CHOOSE r \in {BinarySort(t, k + 1) :
                                     t \in {SubSeq(s, 1, at) \o <<s[k]>>
                                            \o SubSeq(s, at + 1, k - 1)
                                            \o SubSeq(s, k + 1, n)}} : TRUE
    IN  IF n < 2 THEN x ELSE BinarySort(start, run + 1)

\* The second test of the sweep with "<" for "<=".
advance_y_strict(xv, yv) == FLt(yv, xv)

\* if yv <= xv
advance_y(xv, yv) == FLe(yv, xv)

\* ks_statistic(x, y): [raised |-> "none", value |-> d], or "diverges" when the
\* while loop reaches a pair of values for which neither test holds: i, j and d
\* then stay as they are and the loop never ends.
ks_statistic(x, y) ==
    LET xs == SortedValues(x)
        ys == SortedValues(y)
        nx == Len(xs)
        ny == Len(ys)
        RECURSIVE Sweep(_, _, _, _, _)
        Sweep(i, j, cdf_x, cdf_y, d) ==
            IF ~(i < nx /\ j < ny) THEN [raised |-> "none", value |-> d]
            ELSE LET xv == xs[i + 1]
                     yv == ys[j + 1]
                     i2 == IF FLe(xv, yv) THEN i + 1 ELSE i
                     j2 == IF advance_y(xv, yv) THEN j + 1 ELSE j
                     cx == IF FLe(xv, yv) THEN Fl(Rat(i2, nx)) ELSE cdf_x
                     cy == IF advance_y(xv, yv) THEN Fl(Rat(j2, ny)) ELSE cdf_y
                 IN  IF i2 = i /\ j2 = j THEN [raised |-> "diverges", value |-> d]
                     ELSE CHOOSE r \in {Sweep(i2, j2, u, v, RMax(d, RAbs(Fl(RSub(u, v)))))
                                           : u \in {cx}, v \in {cy}} : TRUE
    IN  IF x = <<>> \/ y = <<>> THEN [raised |-> "none", value |-> Zero]
        ELSE Sweep(0, 0, Zero, Zero, Zero)

\* _quantile_sorted(sorted_xs, q), q finite.
quantile_sorted(sorted_xs, q) ==
    LET n == Len(sorted_xs)
        pos == Fl(RMul(Rat(n - 1, 1), q))
        lo == pos.num \div pos.den                              \* math.floor(pos)
        hi == IF pos.num % pos.den = 0 THEN lo ELSE lo + 1      \* math.ceil(pos)
        w == Fl(RSub(pos, Rat(lo, 1)))
    IN  IF n = 0 THEN Zero
        ELSE IF RLe(q, Zero) THEN sorted_xs[1]
        ELSE IF RLe(Rat(1, 1), q) THEN sorted_xs[n]
        ELSE IF lo = hi THEN sorted_xs[lo + 1]
        ELSE FOp("+", FOp("*", sorted_xs[lo + 1], Fl(RSub(Rat(1, 1), w))),
                       FOp("*", sorted_xs[hi + 1], w))

\* The difference of two quantiles with its sign kept.
quantile_gap_signed(a, b) == FOp("-", a, b)

\* abs(_quantile_sorted(xs, q) - _quantile_sorted(ys, q))
quantile_gap(a, b) == RAbs(FOp("-", a, b))

\* wasserstein_distance_1d(x, y, points=points): i / (points - 1) raises for
\* points = 1, acc / points for points = 0; a negative points leaves acc at 0.0.
wasserstein_distance_1d(x, y, points) ==
    LET xs == SortedValues(x)
        ys == SortedValues(y)
        gap(i) == LET q == Fl(Rat(i, points - 1))
                  IN  quantile_gap(quantile_sorted(xs, q), quantile_sorted(ys, q))
        RECURSIVE Acc(_, _, _)
        \* acc after the turns i = lo .. hi - 1 of the loop, in that order.
        Acc(lo, hi, acc) ==
            IF lo >= hi THEN acc
            ELSE IF hi = lo + 1 THEN FOp("+", acc, gap(lo))
            ELSE LET mid == (lo + hi) \div 2
                 IN  CHOOSE r \in {Acc(mid, hi, half) : half \in {Acc(lo, mid, acc)}} :
                         TRUE
    IN  IF x = <<>> \/ y = <<>> THEN [raised |-> "none", value |-> Zero]
        ELSE IF points \in {0, 1} THEN [raised |-> "ZeroDivisionError", value |-> Zero]
        ELSE IF points < 0 THEN [raised |-> "none", value |-> Zero]
        ELSE [raised |-> "none", value |-> FOp("/", Acc(0, points, Zero), Rat(points, 1))]

\* points of the call in drift_tests (the default).
DefaultPoints == 101

\* drift_tests(prev_rows, curr_rows) without SciPy, which is not part of the
\* repository: the report's "columns" as the sequence of its entries in insertion
\* order; "TypeError" from sorted(), "diverges" from ks_statistic.
drift_tests(prev_rows, curr_rows) ==
    LET prev_cols == extract_numeric_columns(prev_rows)
        curr_cols == extract_numeric_columns(curr_rows)
        shared == sorted(DOMAIN prev_cols.value \cap DOMAIN curr_cols.value).value
        kept == SelectSeq(shared, LAMBDA k : ~(Len(NumericColumn(prev_rows, k)) < 2
                                               \/ Len(NumericColumn(curr_rows, k)) < 2))
        entry(k) ==
            CHOOSE e \in {[column |-> k, prev_n |-> Len(px), curr_n |-> Len(cy),
                           ks |-> ks_statistic(px, cy),
                           wass |-> wasserstein_distance_1d(px, cy, DefaultPoints)] :
                          px \in {NumericColumn(prev_rows, k)},
                          cy \in {NumericColumn(curr_rows, k)}} : TRUE
    IN  IF prev_cols.raised # "none" \/ curr_cols.raised # "none"
        THEN [raised |-> "TypeError", value |-> <<>>]
        ELSE CHOOSE r \in
            {IF \E i \in 1..Len(es) : es[i].ks.raised # "none"
             THEN [raised |-> "diverges", value |-> <<>>]
             ELSE [raised |-> "none",
                   value |-> [i \in 1..Len(es) |->
                       [column |-> es[i].column, prev_n |-> es[i].prev_n,
                        curr_n |-> es[i].curr_n, ks_d |-> es[i].ks.value,
                        wasserstein |-> es[i].wass.value]]]
             : es \in {[i \in 1..Len(kept) |-> entry(kept[i])]}} : TRUE

----------------------------------------------------------------------------
(* riftlens: numeric vectors, coherence graph and riftlens_run_csv *)

\* _pairwise_numeric_vectors(rows): the floats of every column with at least 2
\* numeric values; TypeError from sorted(), ValueError when no column is kept.
pairwise_numeric_vectors(rows) ==
    LET keys == sorted(TableColumns(rows))
        numeric == {k \in TableColumns(rows) : Len(NumericColumn(rows, k)) >= 2}
    IN  IF keys.raised # "none" THEN [raised |-> "TypeError", data |-> <<>>]
        ELSE IF numeric = {} THEN [raised |-> "ValueError", data |-> <<>>]
        ELSE [raised |-> "none", data |-> [k \in numeric |-> NumericColumn(rows, k)]]

\* round(r, ndigits): the float nearest to r rounded to ndigits decimals.  A float
\* whose denominator divides 2^ndigits is a whole number of 10^-ndigits and is
\* returned as it is.
round(r, ndigits) ==
    IF (2^ndigits) % r.den = 0 THEN r
    ELSE LET m == Fl(Rat(RoundHalfEven(Abs(r.num) * 10^ndigits, r.den), 10^ndigits))
         IN  [num |-> (IF r.num < 0 THEN -1 ELSE 1) * m.num, den |-> m.den]

\* An edge test that drops a correlation equal to the threshold.
edge_kept_strict(raw, threshold) == ~IsNaN(raw) /\ RLt(threshold, RAbs(raw))

\* if abs(raw) >= threshold (false for a NaN correlation).
edge_kept(raw, threshold) == ~IsNaN(raw) /\ RLe(threshold, RAbs(raw))

\* build_coherence_graph(data, threshold), threshold a float; edges in the order
\* the two loops append them.
build_coherence_graph(data, threshold) ==
    LET keys == sorted(DOMAIN data).value
        RECURSIVE Edges(_, _)
        Edges(i, j) ==
            IF i > Len(keys) THEN <<>>
            ELSE IF j > Len(keys) THEN Edges(i + 1, i + 2)
            ELSE LET raw == pearson_corr(data[keys[i]], data[keys[j]])
                 IN  IF edge_kept(raw, threshold)
                     THEN <<[a |-> keys[i], b |-> keys[j],
                             corr |-> round(round(raw, 12), 12)]>> \o Edges(i, j + 1)
                     ELSE Edges(i, j + 1)
    IN  [nodes |-> keys, edges |-> Edges(1, 2), threshold |-> threshold]

\* f"{float(thr):.2f}" of a threshold given in thousandths (not ending in 5), as
\* the number of hundredths it prints.
Fmt2(thr) == IF thr >= 0 THEN (thr + 5) \div 10 ELSE -((5 - thr) \div 10)

\* Rows of the input tables: numbers, text, the text "nan", a missing cell, and a
\* CSV row with one field more than the header.
RiftRows ==
    <<[a |-> JNum(0), b |-> JNum(1), c |-> JStr],
      [a |-> JNum(1), b |-> JNum(1), c |-> JNum(2)],
      [a |-> JNum(2), b |-> JNum(0), c |-> JNaN],
      [a |-> JNum(1), b |-> None],
      [k \in {"a", "b", RestKey} |->
          IF k = "a" THEN JNum(2)
          ELSE IF k = "b" THEN JNum(2) ELSE [t |-> "list", v |-> 0]]>>

\* Longest input table, in rows.
MaxTableRows == 3

\* The tables of at most n rows.
RiftTables(n) ==
    UNION {[1..k -> {RiftRows[i] : i \in 1..Len(RiftRows)}] : k \in 0..n}

\* Calls of riftlens_run_csv: thresholds in thousandths, the flags, and the rows
\* of shadow_prev (has_prev false for None).  plot stays False.
RiftCalls ==
    <<[thresholds |-> <<>>, profile |-> FALSE, stat_tests |-> FALSE,
       has_prev |-> FALSE, prev |-> <<>>],
      [thresholds |-> <<0, 1000>>, profile |-> TRUE, stat_tests |-> FALSE,
       has_prev |-> TRUE, prev |-> <<RiftRows[1], RiftRows[2]>>],
      [thresholds |-> <<500>>, profile |-> TRUE, stat_tests |-> TRUE,
       has_prev |-> TRUE, prev |-> <<RiftRows[1], RiftRows[2], RiftRows[3]>>],
      [thresholds |-> <<2000, 500>>, profile |-> FALSE, stat_tests |-> TRUE,
       has_prev |-> FALSE, prev |-> <<>>],
      [thresholds |-> <<504, 500>>, profile |-> FALSE, stat_tests |-> TRUE,
       has_prev |-> TRUE, prev |-> <<RiftRows[2], RiftRows[5], RiftRows[2]>>],
      [thresholds |-> <<504, 500>>, profile |-> TRUE, stat_tests |-> FALSE,
       has_prev |-> FALSE, prev |-> <<>>]>>

\* riftlens_run_csv is entered: output_dir exists, nothing is written yet.
InitRift ==
    /\ pc = "calc"
    /\ MainIdle
    /\ \E rows \in RiftTables(MaxTableRows), c \in 1..Len(RiftCalls) :
           calc = [fn |-> "riftlens_run_csv", step |-> "start", rows |-> rows,
                   call |-> RiftCalls[c], data |-> <<>>, next |-> 1,
                   writes |-> <<>>, raised |-> "none"]

\* curr_rows = read_table(input_csv); data = _pairwise_numeric_vectors(curr_rows)
RiftVectors ==
    /\ pc = "calc"
    /\ calc.fn = "riftlens_run_csv"
    /\ calc.step = "start"
    /\ LET r == pairwise_numeric_vectors(calc.rows)
       IN  IF r.raised # "none"
           THEN /\ calc' = [calc EXCEPT !.step = "raised", !.raised = r.raised]
                /\ pc' = "done"
           ELSE /\ calc' = [calc EXCEPT !.step = "graphs", !.data = r.data]
                /\ pc' = pc
    /\ UNCHANGED mainVars

\* One turn of "for thr in thresholds": the graph is built and its report written.
RiftGraph ==
    /\ pc = "calc"
    /\ calc.fn = "riftlens_run_csv"
    /\ calc.step = "graphs"
    /\ calc.next <= Len(calc.call.thresholds)
    /\ LET thr == calc.call.thresholds[calc.next]
           graph == build_coherence_graph(calc.data, Rat(thr, 1000))
           out == [kind |-> "riftlens_report_thr", thr |-> Fmt2(thr)]
       IN  calc' = [calc EXCEPT !.next = @ + 1,
                                !.writes = Append(@, [path |-> out, thr |-> thr,
                                                      report |-> graph])]
    /\ UNCHANGED <<pc, mainVars>>

\* After the loop: the profile when asked, then the drift report when stat_tests
\* is set and shadow_prev is given, then the result is returned.  drift_tests may
\* raise or never return; the profile is written before it is called.
RiftExtras ==
    /\ pc = "calc"
    /\ calc.fn = "riftlens_run_csv"
    /\ calc.step = "graphs"
    /\ calc.next > Len(calc.call.thresholds)
    /\ \E prof \in {IF calc.call.profile
                    THEN <<[path |-> [kind |-> "riftlens_profile", thr |-> 0], thr |-> 0,
                            report |-> [rows |-> Len(calc.rows)]]>>
                    ELSE <<>>},
          drift \in {IF calc.call.stat_tests /\ calc.call.has_prev
                     THEN drift_tests(calc.call.prev, calc.rows)
                     ELSE [raised |-> "skipped", value |-> <<>>]} :
           calc' = [calc EXCEPT
               !.step = IF drift.raised = "diverges" THEN "hung"
                        ELSE IF drift.raised \in {"none", "skipped"} THEN "returned"
                        ELSE "raised",
               !.raised = IF drift.raised \in {"none", "skipped", "diverges"} THEN @
                          ELSE drift.raised,
               !.writes = IF drift.raised = "none"
                          THEN @ \o prof \o
                               <<[path |-> [kind |-> "riftlens_drift_report", thr |-> 0],
                                  thr |-> 0, report |-> [columns |-> drift.value]]>>
                          ELSE @ \o prof]
    /\ pc' = "done"
    /\ UNCHANGED mainVars

NextRift == RiftVectors \/ RiftGraph \/ RiftExtras

SpecRift == InitRift /\ [][NextRift]_vars

----------------------------------------------------------------------------
(* Properties of the coherence graph and of riftlens_run_csv *)

\* The run of riftlens_run_csv is over: it returned, raised, or will never return.
RiftOver == calc.fn = "riftlens_run_csv" /\ pc = "done"

\* The graph reports written so far, as positions in calc.writes.
GraphWrites ==
    {w \in 1..Len(calc.writes) : calc.writes[w].path.kind = "riftlens_report_thr"}

\* Some column of the input has at least 2 numeric values.
SomeColumnQualifies ==
    \E k \in TableColumns(calc.rows) : Len(NumericColumn(calc.rows, k)) >= 2

\* The position of a column name in sorted order.
ColumnRank(k) == CHOOSE i \in 1..Len(ColumnOrder) : ColumnOrder[i] = k

\* C15: every graph report lists all columns of data in sorted order as nodes; each
\* of its edges joins two distinct columns with a before b; every pair of columns
\* a < b has one edge when |pearson_corr| >= threshold and none otherwise; and the
\* edges stand in the order of the pairs.
C15_GraphPairsEveryColumnOnce ==
    calc.fn = "riftlens_run_csv" =>
        \A w \in GraphWrites :
            LET g == calc.writes[w].report
                thr == Rat(calc.writes[w].thr, 1000)
                keys == SelectSeq(ColumnOrder, LAMBDA k : k \in DOMAIN calc.data)
                rank(e) == <<ColumnRank(g.edges[e].a), ColumnRank(g.edges[e].b)>>
            IN  /\ g.nodes = keys
                /\ g.threshold = thr
                /\ \A e \in 1..Len(g.edges) :
                       /\ g.edges[e].a \in DOMAIN calc.data
                       /\ g.edges[e].b \in DOMAIN calc.data
                       /\ rank(e)[1] < rank(e)[2]
                /\ \A i, j \in 1..Len(keys) :
                       i < j =>
                           LET raw == pearson_corr(calc.data[keys[i]], calc.data[keys[j]])
                               found == {e \in 1..Len(g.edges) :
                                            /\ g.edges[e].a = keys[i]
                                            /\ g.edges[e].b = keys[j]}
                           IN  Cardinality(found)
                                   = IF ~IsNaN(raw) /\ RLe(thr, RAbs(raw)) THEN 1 ELSE 0
                /\ \A e1, e2 \in 1..Len(g.edges) :
                       e1 < e2 =>
                           \/ rank(e1)[1] < rank(e2)[1]
                           \/ rank(e1)[1] = rank(e2)[1] /\ rank(e1)[2] < rank(e2)[2]

\* A graph of three columns at threshold 1.0 whose one edge has |corr| equal to the
\* threshold, the third column being a node of no edge.
C15_Witness_EdgeAtThresholdAndLoneNode ==
    /\ calc.fn = "riftlens_run_csv"
    /\ \E w \in GraphWrites :
           /\ calc.writes[w].thr = 1000
           /\ Len(calc.writes[w].report.nodes) = 3
           /\ Len(calc.writes[w].report.edges) = 1
           /\ RAbs(calc.writes[w].report.edges[1].corr) = Rat(1, 1)

\* C16: a finished run raised from _pairwise_numeric_vectors exactly when no column
\* has 2 numeric values, and then nothing was written; when a column qualifies,
\* one graph report was written for each requested threshold.
C16_FailsHardOnlyWithoutNumericColumns ==
    RiftOver =>
        /\ ~SomeColumnQualifies =>
               calc.step = "raised" /\ calc.writes = <<>>
        /\ SomeColumnQualifies =>
               Cardinality(GraphWrites) = Len(calc.call.thresholds)

----------------------------------------------------------------------------
(* The drift statistics as functions: ks_statistic, wasserstein_distance_1d and *)
(* drift_tests applied to bounded inputs.                                       *)

\* Values of the samples.
StatValues == {Zero, Rat(1, 1), Rat(2, 1), NaN}

\* Longest x and longest y of a call, and the largest number of quantile points.
MaxSampleX == 2

MaxSampleY == 3

MaxPoints == 3

InitStat ==
    /\ pc = "calc"
    /\ MainIdle
    /\ \/ \E x \in SeqsUpTo(StatValues, MaxSampleX),
             y \in SeqsUpTo(StatValues, MaxSampleY) :
              \/ calc = [fn |-> "ks_statistic", in |-> <<x, y>>, out |-> None]
              \/ \E points \in -1..MaxPoints :
                     calc = [fn |-> "wasserstein_distance_1d", in |-> <<x, y, points>>,
                             out |-> None]
       \/ \E c \in 1..Len(RiftCalls), curr \in RiftTables(MaxTableRows) :
              /\ RiftCalls[c].has_prev
              /\ calc = [fn |-> "drift_tests", in |-> <<RiftCalls[c].prev, curr>>,
                         out |-> None]

\* ks_statistic(x, y), and with the samples exchanged.
ApplyKs ==
    /\ pc = "calc"
    /\ calc.fn = "ks_statistic"
    /\ \E swap \in BOOLEAN :
           LET a == IF swap THEN calc.in[2] ELSE calc.in[1]
               b == IF swap THEN calc.in[1] ELSE calc.in[2]
           IN  calc' = [fn |-> "ks_statistic", in |-> <<a, b>>, out |-> ks_statistic(a, b)]
    /\ pc' = "done"
    /\ UNCHANGED mainVars

ApplyWasserstein ==
    /\ pc = "calc"
    /\ calc.fn = "wasserstein_distance_1d"
    /\ calc' = [calc EXCEPT
                   !.out = wasserstein_distance_1d(calc.in[1], calc.in[2], calc.in[3])]
    /\ pc' = "done"
    /\ UNCHANGED mainVars

ApplyDriftTests ==
    /\ pc = "calc"
    /\ calc.fn = "drift_tests"
    /\ calc' = [calc EXCEPT !.out = drift_tests(calc.in[1], calc.in[2])]
    /\ pc' = "done"
    /\ UNCHANGED mainVars

NextStat == ApplyKs \/ ApplyWasserstein \/ ApplyDriftTests

SpecStat == InitStat /\ [][NextStat]_vars

----------------------------------------------------------------------------
(* Properties of the drift statistics *)

StatDone(fn) == pc = "done" /\ calc.fn = fn

\* A non-empty sample of finite values.
FiniteSample(s) == s # <<>> /\ \A i \in 1..Len(s) : ~IsNaN(s[i])

\* sup_t |F_x(t) - F_y(t)| over the sample points t, F the empirical CDF: the
\* share of values <= t, a float division, and the difference a float subtraction.
ClassicalKS(x, y) ==
    LET F(s, t) == Fl(Rat(Cardinality({i \in 1..Len(s) : RLe(s[i], t)}), Len(s)))
        points == {x[i] : i \in 1..Len(x)} \cup {y[i] : i \in 1..Len(y)}
    IN  RMaxOver({RAbs(Fl(RSub(F(x, t), F(y, t)))) : t \in points}, Zero)

\* C17: for all non-empty finite samples, repeated and shared values included,
\* ks_statistic(x, y) is the classical two-sample statistic sup_t |F_x(t) - F_y(t)|.
C17_KsIsClassicalStatistic ==
    (StatDone("ks_statistic") /\ FiniteSample(calc.in[1]) /\ FiniteSample(calc.in[2])) =>
        calc.out = [raised |-> "none", value |-> ClassicalKS(calc.in[1], calc.in[2])]

\* The two samples hold the same values the same number of times.
SameMultiset(x, y) ==
    /\ Len(x) = Len(y)
    /\ \A v \in StatValues :
           Cardinality({i \in 1..Len(x) : x[i] = v})
               = Cardinality({i \in 1..Len(y) : y[i] = v})

\* Every value of x is strictly smaller than every value of y.
StrictlyBelow(x, y) == \A i \in 1..Len(x), j \in 1..Len(y) : RLt(x[i], y[j])

C19_WassersteinSymmetric ==
    (StatDone("wasserstein_distance_1d") /\ FiniteSample(calc.in[1])
        /\ FiniteSample(calc.in[2])) =>
        calc.out = wasserstein_distance_1d(calc.in[2], calc.in[1], calc.in[3])

\* A non-zero distance between samples of different sizes, on 3 quantile points.
C19_Witness_UnequalSizesNonZero ==
    /\ StatDone("wasserstein_distance_1d")
    /\ FiniteSample(calc.in[1]) /\ FiniteSample(calc.in[2])
    /\ Len(calc.in[1]) = 2 /\ Len(calc.in[2]) = 3
    /\ calc.in[3] = 3
    /\ calc.out.raised = "none"
    /\ RLt(Zero, calc.out.value)

\* The columns drift_tests is to report for the tables prev and curr: the shared
\* ones with at least 2 numeric values on each side, in sorted order.
DriftColumns(prev, curr) ==
    SelectSeq(ColumnOrder \o <<RestKey>>,
              LAMBDA k : /\ k \in TableColumns(prev) \cap TableColumns(curr)
                         /\ Len(NumericColumn(prev, k)) >= 2
                         /\ Len(NumericColumn(curr, k)) >= 2)

\* C20: drift_tests returns for every two tables, and its report holds exactly
\* the shared columns with at least 2 numeric values on each side, in sorted
\* order, prev_n and curr_n being the numbers of numeric values.
C20_DriftReportsQualifyingColumns ==
    StatDone("drift_tests") =>
        LET cols == DriftColumns(calc.in[1], calc.in[2])
        IN  /\ calc.out.raised = "none"
            /\ Len(calc.out.value) = Len(cols)
            /\ \A i \in 1..Len(cols) :
                   /\ calc.out.value[i].column = cols[i]
                   /\ calc.out.value[i].prev_n = Len(NumericColumn(calc.in[1], cols[i]))
                   /\ calc.out.value[i].curr_n = Len(NumericColumn(calc.in[2], cols[i]))

----------------------------------------------------------------------------
(* The mean z-shift of the drift term as the floats compute it.  The aggregator *)
(* model above takes sums, means and variances as exact rationals; here every   *)
(* float operation of _numeric_means_and_stds and _drift_mean_zmax is rounded.  *)

\* _numeric_means_and_stds / numeric_means_and_stds(csv_path) on the rows of the
\* file: running sums of x and of x * x per column, then mu = sums / n and
\* var = max(0.0, sums2 / n - mu * mu) for every column with n > 1.  The surplus
\* fields of an over-long row are a list under the key None: str(v) of the root
\* front-end does not parse, v.strip() of the packaged one raises.
numeric_means_and_stds_fl(table, max_rows, front) ==
    LET vals(k) == LET ints == ColumnValues(table, k, 1, max_rows)
                   IN  [i \in 1..Len(ints) |-> Rat(ints[i], 1)]
        kept == {k \in TableColumns(table) : Len(vals(k)) > 1}
        n(k) == Rat(Len(vals(k)), 1)
        mu(k) == Fl(RDiv(FSum(vals(k), Zero), n(k)))
        sums2(k) == FSum([i \in 1..Len(vals(k)) |-> Fl(RMul(vals(k)[i], vals(k)[i]))],
                         Zero)
        var(k) == RMax(Zero, Fl(RSub(Fl(RDiv(sums2(k), n(k))), Fl(RMul(mu(k), mu(k))))))
    IN  IF front = "pkg" /\ \E i \in 1..Len(table) : i <= max_rows /\ RestKey \in DOMAIN table[i]
        THEN [raised |-> "AttributeError", means |-> <<>>, stds |-> <<>>]
        ELSE [raised |-> "none", means |-> [k \in kept |-> mu(k)],
              stds |-> [k \in kept |-> FSqrt(var(k))]]

\* _drift_mean_zmax / drift_mean_z(baseline_csv, current_csv).
drift_mean_zmax_fl(baseline, current, front) ==
    LET base == numeric_means_and_stds_fl(baseline, MaxRowsDefault, front)
        curr == numeric_means_and_stds_fl(current, MaxRowsDefault, front)
        cols == {c \in DOMAIN base.means :
                    c \in DOMAIN curr.means /\ RLt(Zero, base.stds[c])}
        z(c) == Fl(RDiv(RAbs(Fl(RSub(curr.means[c], base.means[c]))), base.stds[c]))
    IN  IF base.raised # "none" \/ curr.raised # "none"
        THEN [raised |-> "AttributeError", value |-> Zero]
        ELSE [raised |-> "none", value |-> RMaxOver({z(c) : c \in cols}, Zero)]

----------------------------------------------------------------------------
(* The table helpers and command-line tools as functions of bounded inputs. *)

\* Rows of the baseline and current CSV files of a drift measurement.
ZRows ==
    <<[a |-> JNum(7), b |-> JNum(3)],
      [a |-> JNum(7), b |-> JNum(4)],
      [a |-> JNum(3), c |-> JNum(1)],
      [a |-> JStr, b |-> JNum(7), c |-> JNum(2)],
      [k \in {"a", "b", RestKey} |->
          IF k = RestKey THEN [t |-> "list", v |-> 0] ELSE JNum(4)]>>

----------------------------------------------------------------------------
(* io_utils: the column profile.  Its medians and percentiles are taken in     *)
(* exact arithmetic (q = 1/100 .. 99/100, z = 1349/2000 * (x - med) / mad):    *)
(* the binary64 results differ from these by rounding only.                    *)

\* A _median that takes the upper middle value of an even-sized list.
median_upper(xs) ==
    LET ys == SortedValues(xs)
    IN  IF xs = <<>> THEN Zero ELSE ys[Len(ys) \div 2 + 1]

\* _median(xs)
median(xs) ==
    LET ys == SortedValues(xs)
        n == Len(ys)
        mid == n \div 2
    IN  IF xs = <<>> THEN Zero
        ELSE IF n % 2 = 1 THEN ys[mid + 1]
        ELSE RDiv(RAdd(ys[mid], ys[mid + 1]), Rat(2, 1))

\* An outlier test that forgets abs().
robust_outlier_signed(x, med, mad) ==
    RLt(Zero, mad) /\ RLe(Rat(7, 2), RDiv(RMul(Rat(1349, 2000), RSub(x, med)), mad))

\* if mad > 0.0: z = 0.6745 * (x - med) / mad; if abs(z) >= 3.5
robust_outlier(x, med, mad) ==
    RLt(Zero, mad) /\ RLe(Rat(7, 2), RAbs(RDiv(RMul(Rat(1349, 2000), RSub(x, med)), mad)))

\* profile_table(rows), rows without NaN: per column the counts and, when the
\* column has numeric values, its statistics (std to Precision bits).
profile_table(rows) ==
    LET cell(i, k) == IF k \in DOMAIN rows[i] THEN rows[i][k] ELSE None
        quantile(sorted_xs, q) ==                               \* _quantile_sorted
            LET n == Len(sorted_xs)
                pos == RMul(Rat(n - 1, 1), q)
                lo == pos.num \div pos.den
                hi == IF pos.num % pos.den = 0 THEN lo ELSE lo + 1
                w == RSub(pos, Rat(lo, 1))
            IN  IF lo = hi THEN sorted_xs[lo + 1]
                ELSE RAdd(RMul(sorted_xs[lo + 1], RSub(Rat(1, 1), w)),
                          RMul(sorted_xs[hi + 1], w))
        sum(xs) == LET RECURSIVE S(_)
                       S(i) == IF i = 0 THEN Zero ELSE RAdd(S(i - 1), xs[i])
                   IN  S(Len(xs))
        pstdev(xs) ==                                           \* _safe_stdev
            LET mu == RDiv(sum(xs), Rat(Len(xs), 1))
                ss == sum([i \in 1..Len(xs) |-> RMul(RSub(xs[i], mu), RSub(xs[i], mu))])
            IN  IF Len(xs) < 2 THEN Zero ELSE FSqrt(RDiv(ss, Rat(Len(xs), 1)))
        counts(k) ==
            [missing |-> Cardinality({i \in 1..Len(rows) : cell(i, k).t = "none"}),
             nonempty |-> Cardinality({i \in 1..Len(rows) : cell(i, k).t # "none"}),
             non_numeric |-> Cardinality({i \in 1..Len(rows) :
                                            cell(i, k).t \notin {"none", "num"}}),
             numeric_count |-> Len(NumericColumn(rows, k))]
        stats(xs) ==
            LET xs_sorted == SortedValues(xs)
                med == median(xs_sorted)
                mad == median([i \in 1..Len(xs) |-> RAbs(RSub(xs_sorted[i], med))])
            IN  [min |-> xs_sorted[1], max |-> xs_sorted[Len(xs)],
                 mean |-> RDiv(sum(xs), Rat(Len(xs), 1)), std |-> pstdev(xs),
                 median |-> med, mad |-> mad,
                 p01 |-> quantile(xs_sorted, Rat(1, 100)),
                 p05 |-> quantile(xs_sorted, Rat(5, 100)),
                 p50 |-> quantile(xs_sorted, Rat(50, 100)),
                 p95 |-> quantile(xs_sorted, Rat(95, 100)),
                 p99 |-> quantile(xs_sorted, Rat(99, 100)),
                 outliers_robust |->
                     Cardinality({i \in 1..Len(xs) : robust_outlier(xs[i], med, mad)})]
        entry(k) == IF NumericColumn(rows, k) = <<>> THEN counts(k)
                    ELSE counts(k) @@ stats(NumericColumn(rows, k))
    IN  IF sorted(TableColumns(rows)).raised # "none"
        THEN [raised |-> "TypeError", value |-> <<>>]
        ELSE [raised |-> "none",
              value |-> [rows |-> Len(rows),
                         columns |-> [k \in TableColumns(rows) |-> entry(k)]]]

\* Rows of the profiled tables: whole numbers, text, a missing cell, a second
\* column, and a CSV row with one field more than the header.
ProfileRows ==
    {[a |-> JNum(v)] : v \in {0, 1, 2, 3, 4, 9}}
        \cup {[a |-> JStr], [a |-> None], [a |-> JNum(2), b |-> JStr],
              [k \in {"a", RestKey} |->
                  IF k = "a" THEN JNum(1) ELSE [t |-> "list", v |-> 0]]}

\* Longest profiled table, in rows.
MaxProfileRows == 4

----------------------------------------------------------------------------
(* io_utils: read_table.  A file is [exists, suffix, header, items]; an item   *)
(* is "row" (a CSV record, a JSON object), "blank" (an empty line) or "scalar" *)
(* (a JSON value that is not an object).  A row read is named by the position  *)
(* of its item in the file.                                                    *)

\* read_table(path, max_rows=max_rows), max_rows None or JNum(n) with n >= 0;
\* pandas tells whether pandas and pyarrow can be imported.
read_table(file, max_rows, pandas) ==
    LET items == file.items
        capped == max_rows.t # "none"
        objects == SelectSeq([i \in 1..Len(items) |-> i], LAMBDA i : items[i] = "row")
        RECURSIVE CsvLoop(_, _, _)
        \* for i, row in enumerate(reader): the reader skips the blank lines.
        CsvLoop(at, i, rows) ==
            IF at > Len(items) THEN rows
            ELSE IF items[at] # "row" THEN CsvLoop(at + 1, i, rows)
            ELSE IF capped /\ i + 1 >= max_rows.v THEN Append(rows, at)
            ELSE CsvLoop(at + 1, i + 1, Append(rows, at))
        RECURSIVE LinesLoop(_, _)
        \* for i, line in enumerate(f)
        LinesLoop(at, rows) ==
            IF at > Len(items) THEN rows
            ELSE IF items[at] = "blank" THEN LinesLoop(at + 1, rows)
            ELSE LET kept == IF items[at] = "row" THEN Append(rows, at) ELSE rows
                 IN  IF capped /\ Len(kept) >= max_rows.v THEN kept
                     ELSE LinesLoop(at + 1, kept)
    IN  IF ~file.exists THEN [raised |-> "FileNotFoundError", value |-> <<>>]
        ELSE IF file.suffix \in {".csv", ".tsv"}
        THEN IF ~file.header THEN [raised |-> "ValueError", value |-> <<>>]
             ELSE [raised |-> "none", value |-> CsvLoop(1, 0, <<>>)]
        ELSE IF file.suffix = ".json" THEN [raised |-> "none", value |-> objects]
        ELSE IF file.suffix \in {".jsonl", ".ndjson"}
        THEN [raised |-> "none", value |-> LinesLoop(1, <<>>)]
        ELSE IF file.suffix = ".parquet"
        THEN IF ~pandas THEN [raised |-> "RuntimeError", value |-> <<>>]
             ELSE [raised |-> "none",
                   value |-> IF capped THEN SubSeq(objects, 1, Min(max_rows.v, Len(objects)))
                             ELSE objects]
        ELSE [raised |-> "ValueError", value |-> <<>>]

\* Most items of a file read by read_table.
MaxFileItems == 3

\* Largest row cap passed to read_table.
MaxCap == 4

\* The files read: the item kinds each format can hold; a CSV file without a
\* header is empty; the .txt file stands for an unsupported format.
TableFiles ==
    LET kinds(suffix) == CASE suffix \in {".csv", ".tsv"} -> {"row", "blank"}
                           [] suffix = ".json" -> {"row", "scalar"}
                           [] suffix = ".jsonl" -> {"row", "blank", "scalar"}
                           [] OTHER -> {"row"}
    IN  {f \in [exists : BOOLEAN, header : BOOLEAN,
                    suffix : {".csv", ".json", ".jsonl", ".parquet", ".txt"},
                    items : SeqsUpTo({"row", "blank", "scalar"}, MaxFileItems)] :
            /\ \A i \in 1..Len(f.items) : f.items[i] \in kinds(f.suffix)
            /\ f.header \/ (f.exists /\ f.suffix = ".csv" /\ f.items = <<>>)
            /\ f.exists \/ f.items = <<>>}

----------------------------------------------------------------------------
(* tools/make_smoke_sample.py.  The input CSV is [header, rows]: whether it    *)
(* has a first line, and the number of lines after it; a data row is named by  *)
(* its index idx.  ratio is a rational, 1.0 / ratio its exact quotient.        *)

\* main() with --ratio, --max-rows and --min-rows: the data rows written to the
\* output in the order they are written (created tells whether the output file
\* was opened), the kept, total and step of the printed line, and the exit.
make_smoke_sample(input, ratio, max_rows, min_rows) ==
    LET n == input.rows
        step == Max(1, RoundHalfEven(ratio.den, ratio.num))
        RECURSIVE Sample(_, _)
        \* first loop: [written, total] when it ends or breaks
        Sample(idx, written) ==
            IF idx > n THEN [written |-> written, total |-> n]
            ELSE IF idx % step # 0 THEN Sample(idx + 1, written)
            ELSE IF Len(written) + 1 >= max_rows
                 THEN [written |-> Append(written, idx), total |-> idx]
            ELSE Sample(idx + 1, Append(written, idx))
        RECURSIVE TopUp(_, _, _)
        \* second loop, after fin.seek(0)
        TopUp(idx, written, already) ==
            IF idx > n \/ already >= min_rows THEN written
            ELSE IF idx % step # 0 THEN TopUp(idx + 1, Append(written, idx), already + 1)
            ELSE TopUp(idx + 1, written, already)
        first == Sample(1, <<>>)
        kept == Len(first.written)
    IN  IF RLe(ratio, Zero) \/ RLt(Rat(1, 1), ratio)
        THEN [exit |-> 1, created |-> FALSE, written |-> <<>>, printed |-> None]
        ELSE IF ~input.header
        THEN [exit |-> 1, created |-> TRUE, written |-> <<>>, printed |-> None]
        ELSE [exit |-> 0, created |-> TRUE,
              written |-> IF kept < min_rows THEN TopUp(1, first.written, kept)
                          ELSE first.written,
              printed |-> [kept |-> Max(kept, min_rows), total |-> first.total,
                           step |-> step]]

\* The ratios tried: 0 and 3/2 are refused; 1 / (2/5) = 2.5 rounds to 2.
SampleRatios == {Zero, Rat(1, 3), Rat(2, 5), Rat(1, 2), Rat(1, 1), Rat(3, 2)}

\* Most data rows of an input CSV of make_smoke_sample.
MaxInputRows == 4

\* Largest --max-rows and --min-rows.
MaxRowsOption == 3

----------------------------------------------------------------------------
(* nulltrace/soak.py.  Scores are whole numbers of thousandths here (0.01 is   *)
(* 10), and so are the null target and the entropy variance of the integrity   *)
(* check that reads the summary.  draws are the values rng.random() returns,   *)
(* one per run; plot stays False.                                              *)

\* nulltrace_run_mass_soak(runs, output_dir, constraints_path, seed): the run
\* records written under runs/ and the summary written and returned.  round(x, 12)
\* leaves thousandths as they are.
nulltrace_run_mass_soak(runs, draws, constraints_exists, seed) ==
    LET n == Max(runs, 0)                                   \* range(int(runs))
        scores == SubSeq(draws, 1, n)
        passed(i) == scores[i] >= 10
        ys == SortedValues([i \in 1..n |-> Rat(scores[i], 1)])
        total == LET RECURSIVE S(_)
                     S(i) == IF i = 0 THEN 0 ELSE S(i - 1) + scores[i]
                 IN  S(n)
        percentile(q) ==                                    \* _percentile(scores, q)
            LET pos == RMul(Rat(n - 1, 1), q)
                lo == pos.num \div pos.den
                hi == Min(n - 1, lo + 1)
                w == RSub(pos, Rat(lo, 1))
            IN  IF n = 0 THEN Zero
                ELSE RAdd(RMul(ys[lo + 1], RSub(Rat(1, 1), w)), RMul(ys[hi + 1], w))
        ch == IF constraints_exists THEN "sha256 of the file" ELSE "64 zeros"
    IN  [run_files |-> [i \in 1..n |-> [run_index |-> i - 1, passed |-> passed(i),
                                        score |-> scores[i]]],
         summary |->
            [runs |-> JNum(runs),
             ok_runs |-> JNum(Cardinality({i \in 1..n : passed(i)})),
             failed_runs |-> JNum(Cardinality({i \in 1..n : ~passed(i)})),
             seed |-> IF seed = 0 THEN [from |-> ch, v |-> 0] ELSE [from |-> "seed", v |-> seed],
             constraints_sha256 |-> ch,
             min_score |-> JNum(IF n = 0 THEN 0 ELSE ys[1].num),
             max_score |-> JNum(IF n = 0 THEN 0 ELSE ys[n].num),
             mean_score |-> JNum(IF n = 0 THEN Zero ELSE Rat(total, n)),
             p01 |-> JNum(percentile(Rat(1, 100))),
             p05 |-> JNum(percentile(Rat(5, 100))),
             p50 |-> JNum(percentile(Rat(50, 100)))]]

\* Values of rng.random(), in thousandths: 0.0, 0.009, 0.01 and 0.5.
DrawValues == {0, 9, 10, 500}

\* Most runs of a soak.
MaxRuns == 3

----------------------------------------------------------------------------
(* The patchers: scripts/patch_pin_ubuntu2204_and_cache_pip.py ("pin"),        *)
(* fluxguard/scripts/patch_fluxguard_ci_v3.py ("ci_v3", "ci_v3 --replace" with *)
(* --replace-blank-with-template; --rename-blank and --install-smoke-template  *)
(* stay off) and scripts/patch_fluxguard_seed_timestamp.py ("seed"), run again *)
(* and again on a tree that holds one file.  The bytes of a file are           *)
(* [eol, pending]: its line endings and the patterns a patcher would rewrite   *)
(* ("plain": runs-on: ubuntu-latest; "quoted": the same in quotes, which only  *)
(* ci_v3 matches; "cache": a setup-python step without cache; "epoch": an      *)
(* epoch generated_at_utc in a Python file).  read_text() gives the text with  *)
(* every line ending translated to "\n", and write_text() writes it so.        *)

\* No such file.
NoFile == [eol |-> "absent", pending |-> {}]

\* Most runs of the patchers on one tree.
MaxPatchRuns == 3

\* A patcher is started: ci_v3 ends at once when its bundled template is missing.
PatchStart ==
    /\ pc = "calc"
    /\ calc.fn = "patchers"
    /\ calc.step = "idle"
    /\ calc.runs < MaxPatchRuns
    /\ \E p \in {"pin", "ci_v3", "ci_v3 --replace", "seed"} :
           IF p \in {"ci_v3", "ci_v3 --replace"} /\ calc.template = NoFile
           THEN calc' = [calc EXCEPT !.runs = @ + 1, !.patcher = p]
           ELSE calc' = [calc EXCEPT !.patcher = p,
                            !.step = IF p = "ci_v3 --replace" THEN "replace" ELSE "loop"]
    /\ UNCHANGED <<pc, mainVars>>

\* Up to the backup: replace_with_template on blank.yml, or the turn of the main
\* loop for the file (when the patcher's glob finds it).  The new text is worked
\* out and, when the file is to be written, the .bak file is made unless it
\* exists: pin copies the file (shutil.copy2), seed its bytes, ci_v3 writes the
\* text it read.
PatchBackup ==
    /\ pc = "calc"
    /\ calc.fn = "patchers"
    /\ calc.step \in {"replace", "loop"}
    /\ LET p == calc.patcher
           text == [calc.file EXCEPT !.eol = "lf"]                     \* read_text
           handled == CASE p = "pin" -> {"plain", "cache"}
                        [] p = "seed" -> {"epoch"}
                        [] OTHER -> {"plain", "quoted", "cache"}
           found == IF p = "seed" THEN calc.name = "tool.py" ELSE calc.name # "tool.py"
           new == IF calc.step = "replace" THEN calc.template
                  ELSE [text EXCEPT !.pending = @ \ handled]
           kept == IF p \in {"pin", "seed"} THEN calc.file ELSE text
       IN  IF calc.step = "replace" /\ calc.name # "blank.yml"
           THEN calc' = [calc EXCEPT !.step = "idle", !.runs = @ + 1]   \* SystemExit
           ELSE IF calc.step = "loop" /\ (~found \/ new = text)
           THEN calc' = [calc EXCEPT !.step = "idle", !.runs = @ + 1]
           ELSE calc' = [calc EXCEPT
                            !.step = IF @ = "replace" THEN "replace_write" ELSE "loop_write",
                            !.new = new,
                            !.bak = IF @ = NoFile THEN kept ELSE @]
    /\ UNCHANGED <<pc, mainVars>>

\* target.write_text(...) / path.write_text(text): the file is overwritten.
\* first records the bytes the file had before the first write that changed it.
PatchWrite ==
    /\ pc = "calc"
    /\ calc.fn = "patchers"
    /\ calc.step \in {"replace_write", "loop_write"}
    /\ calc' = [calc EXCEPT
                   !.file = calc.new,
                   !.first = IF @ = NoFile /\ calc.new # calc.file THEN calc.file ELSE @,
                   !.step = IF @ = "replace_write" THEN "loop" ELSE "idle",
                   !.runs = IF calc.step = "loop_write" THEN @ + 1 ELSE @]
    /\ UNCHANGED <<pc, mainVars>>

\* Longest current table of a drift measurement, in rows.
MaxCurrentRows == 2

\* A call of one of the helpers is about to be made.
InitTool ==
    /\ pc = "calc"
    /\ MainIdle
    /\ \/ \E base \in SeqsUpTo({ZRows[i] : i \in 1..Len(ZRows)}, MaxTableRows),
             curr \in SeqsUpTo({ZRows[i] : i \in 1..Len(ZRows)}, MaxCurrentRows),
             front \in Variants :
              calc = [fn |-> "drift_mean_zmax", in |-> <<base, curr, front>>, out |-> None]
       \/ \E rows \in SeqsUpTo(ProfileRows, MaxProfileRows) :
              calc = [fn |-> "profile_table", in |-> <<rows>>, out |-> None]
       \/ \E file \in TableFiles, pandas \in BOOLEAN,
             max_rows \in {None} \cup {JNum(n) : n \in 0..MaxCap} :
              calc = [fn |-> "read_table", in |-> <<file, max_rows, pandas>>, out |-> None]
       \/ \E header \in BOOLEAN, n \in 0..MaxInputRows, ratio \in SampleRatios,
             max_rows \in 0..MaxRowsOption, min_rows \in 0..MaxRowsOption :
              /\ header \/ n = 0
              /\ calc = [fn |-> "make_smoke_sample",
                         in |-> <<[header |-> header, rows |-> n], ratio, max_rows,
                                  min_rows>>,
                         out |-> None]
       \/ \E runs \in -1..MaxRuns, constraints_exists \in BOOLEAN, seed \in {0, 7} :
              \E draws \in [1..Max(runs, 0) -> DrawValues] :
                  calc = [fn |-> "soak", step |-> "start",
                          in |-> <<runs, draws, constraints_exists, seed>>,
                          out |-> None, check |-> None]
       \/ \E name \in {"blank.yml", "ci.yml", "tool.py"}, eol \in {"lf", "crlf"},
             pending \in SUBSET {"plain", "quoted", "cache", "epoch"},
             template \in {NoFile, [eol |-> "lf", pending |-> {}],
                           [eol |-> "lf", pending |-> {"plain"}]} :
              /\ IF name = "tool.py" THEN pending \subseteq {"epoch"}
                 ELSE "epoch" \notin pending
              /\ calc = [fn |-> "patchers", step |-> "idle", name |-> name,
                         file |-> [eol |-> eol, pending |-> pending], bak |-> NoFile,
                         first |-> NoFile, template |-> template, patcher |-> "none",
                         new |-> NoFile, runs |-> 0]

ApplyDriftMeanZmax ==
    /\ pc = "calc"
    /\ calc.fn = "drift_mean_zmax"
    /\ calc' = [calc EXCEPT !.out = drift_mean_zmax_fl(calc.in[1], calc.in[2], calc.in[3])]
    /\ pc' = "done"
    /\ UNCHANGED mainVars

ApplyProfile ==
    /\ pc = "calc"
    /\ calc.fn = "profile_table"
    /\ calc' = [calc EXCEPT !.out = profile_table(calc.in[1])]
    /\ pc' = "done"
    /\ UNCHANGED mainVars

ApplyReadTable ==
    /\ pc = "calc"
    /\ calc.fn = "read_table"
    /\ calc' = [calc EXCEPT !.out = read_table(calc.in[1], calc.in[2], calc.in[3])]
    /\ pc' = "done"
    /\ UNCHANGED mainVars

ApplySmokeSample ==
    /\ pc = "calc"
    /\ calc.fn = "make_smoke_sample"
    /\ calc' = [calc EXCEPT !.out = make_smoke_sample(calc.in[1], calc.in[2], calc.in[3],
                                                      calc.in[4])]
    /\ pc' = "done"
    /\ UNCHANGED mainVars

ApplySoak ==
    /\ pc = "calc"
    /\ calc.fn = "soak"
    /\ calc.step = "start"
    /\ calc' = [calc EXCEPT !.step = "soaked",
                            !.out = nulltrace_run_mass_soak(calc.in[1], calc.in[2],
                                                            calc.in[3], calc.in[4])]
    /\ UNCHANGED <<pc, mainVars>>

\* src/integrity_check.py with its default arguments (--weights 0.3,0.4,0.3,
\* --threshold 0.25, --null-min-score 0.10, --void-var-limit 0.01, --null-mode
\* auto) reads the soak's summary from <ci-out>/nulltrace/nulltrace_summary.json;
\* vd is the voidmark summary it finds (or None) and zmax what _drift_mean_zmax
\* returns (0 without CSV files).
ApplyCheckOnSoak ==
    /\ pc = "calc"
    /\ calc.fn = "soak"
    /\ calc.step = "soaked"
    /\ \E vd \in {None, JDict(EmptyDict)}
                     \cup {JDict([var_entropy_bits |-> JNum(v)]) : v \in {5, 12, 1000}},
          zmax \in {Zero, Rat(1, 2), Rat(3, 1)} :
           LET a == [null_mode |-> "auto", null_min_score |-> 100, void_var_limit |-> 10]
               vn == null_violation(JDict(calc.out.summary), NullCandidates[1], a)
               vv == void_violation(vd, VoidCandidates[1], a)
               inco == compute_inco(vn.v, RMax(Zero, zmax), vv.v,
                                    <<Rat(3, 10), Rat(4, 10), Rat(3, 10)>>)
           IN  calc' = [calc EXCEPT !.step = "checked",
                           !.check = [v_null |-> vn.v, v_drift |-> RMax(Zero, zmax),
                                      v_void |-> vv.v, null_details |-> vn.details,
                                      incoherence_score |-> inco,
                                      decision |-> Decision(inco, 25)]]
    /\ pc' = "done"
    /\ UNCHANGED mainVars

NextTool ==
    \/ ApplyDriftMeanZmax
    \/ ApplyProfile
    \/ ApplyReadTable
    \/ ApplySmokeSample
    \/ ApplySoak
    \/ ApplyCheckOnSoak
    \/ PatchStart
    \/ PatchBackup
    \/ PatchWrite

SpecTool == InitTool /\ [][NextTool]_vars

----------------------------------------------------------------------------
(* Properties of the table helpers and tools *)

ToolDone(fn) == pc = "done" /\ calc.fn = fn

\* The numeric values of column k in a CSV table.
CsvValues(table, k) == ColumnValues(table, k, 1, Len(table))

\* The columns that are to influence zmax: at least 2 numeric values in both
\* tables (present in both extracts) and baseline values that are not all equal
\* (baseline std non-zero).
ZColumns(base, curr) ==
    {k \in TableColumns(base) \cap TableColumns(curr) :
        /\ Len(CsvValues(base, k)) > 1
        /\ Len(CsvValues(curr, k)) > 1
        /\ \E i, j \in 1..Len(CsvValues(base, k)) :
               CsvValues(base, k)[i] # CsvValues(base, k)[j]}

\* C21: zmax is the largest |mean(current) - mean(baseline)| / std(baseline) over
\* the columns present in both numeric extracts whose baseline std is non-zero,
\* 0 when there is none, and no other column influences it: the columns with a
\* positive computed baseline std are those whose baseline values differ.
C21_ZmaxOverComparableColumns ==
    ToolDone("drift_mean_zmax") =>
        LET base == numeric_means_and_stds_fl(calc.in[1], MaxRowsDefault, "root")
            curr == numeric_means_and_stds_fl(calc.in[2], MaxRowsDefault, "root")
            cols == ZColumns(calc.in[1], calc.in[2])
            z(c) == Fl(RDiv(RAbs(Fl(RSub(curr.means[c], base.means[c]))), base.stds[c]))
        IN  /\ calc.out.raised = "none"
            /\ \A c \in DOMAIN base.means \cap DOMAIN curr.means :
                   RLt(Zero, base.stds[c]) <=> c \in cols
            /\ calc.out.value = RMaxOver({z(c) : c \in cols}, Zero)

\* The profile of column "a" when profile_table has returned one.
ProfiledA ==
    /\ ToolDone("profile_table")
    /\ calc.out.raised = "none"
    /\ "a" \in DOMAIN calc.out.value.columns

\* The numeric values of column "a" are 1, 2, 3, 4 in some order.
OneToFour ==
    LET xs == NumericColumn(calc.in[1], "a")
    IN  Len(xs) = 4 /\ {xs[i] : i \in 1..Len(xs)} = {Rat(v, 1) : v \in 1..4}

\* C22 as stated: for a column whose numeric values are 1, 2, 3, 4 in any order
\* the profile has median 2.5, p50 2.5, p01 1.0 (the minimum) and p99 4.0 (the
\* maximum).
C22_PercentilesOfOneToFourClamped ==
    (ProfiledA /\ OneToFour) =>
        LET prof == calc.out.value.columns["a"]
        IN  /\ prof.median = Rat(5, 2)
            /\ prof.p50 = Rat(5, 2)
            /\ prof.p01 = Rat(1, 1)
            /\ prof.p99 = Rat(4, 1)

\* C22 amended: for a column whose numeric values are 1, 2, 3, 4 in any order
\* the profile has median 2.5 and p50 2.5, and p01 and p99 are interpolated
\* between the two order statistics around position (n - 1) * q like every other
\* percentile: p01 = 1 * 0.97 + 2 * 0.03 = 1.03 and p99 = 3 * 0.03 + 4 * 0.97 =
\* 3.97, strictly inside the range; only q <= 0 and q >= 1 give the minimum and
\* the maximum.
C22_PercentilesOfOneToFourInterpolated ==
    (ProfiledA /\ OneToFour) =>
        LET prof == calc.out.value.columns["a"]
        IN  /\ prof.median = Rat(5, 2)
            /\ prof.p50 = Rat(5, 2)
            /\ prof.p01 = Rat(103, 100)
            /\ prof.p99 = Rat(397, 100)
            /\ prof.min = Rat(1, 1) /\ prof.max = Rat(4, 1)

\* The column 4, 2, 1, 3 has been profiled.
C22_Witness_UnsortedOneToFour ==
    /\ ProfiledA
    /\ NumericColumn(calc.in[1], "a") = <<Rat(4, 1), Rat(2, 1), Rat(1, 1), Rat(3, 1)>>
    /\ calc.out.value.columns["a"].numeric_count = 4

\* The numeric values of column "a" that lie at least 3.5 * mad / 0.6745 above
\* the median (two_sided: above or below), none when mad is 0; as positions.
FarFromMedian(xs, med, mad, two_sided) ==
    {i \in 1..Len(xs) :
        LET d == RSub(xs[i], med)
        IN  /\ RLt(Zero, mad)
            /\ RLe(RMul(Rat(7000, 1), mad),
                   RMul(Rat(1349, 1), IF two_sided THEN RAbs(d) ELSE d))}

\* C24 as stated: a numeric value x is counted as a robust outlier exactly when
\* MAD > 0 and 0.6745 * (x - median) / MAD >= 3.5; the count is 0 when MAD = 0
\* and never exceeds the numeric count.
C24_OutliersOneSided ==
    (ProfiledA /\ NumericColumn(calc.in[1], "a") # <<>>) =>
        LET prof == calc.out.value.columns["a"]
            xs == NumericColumn(calc.in[1], "a")
        IN  /\ prof.outliers_robust =
                   Cardinality(FarFromMedian(xs, prof.median, prof.mad, FALSE))
            /\ prof.mad = Zero => prof.outliers_robust = 0
            /\ prof.outliers_robust <= prof.numeric_count

\* C24 amended: a numeric value x is counted as a robust outlier exactly when
\* MAD > 0 and |0.6745 * (x - median) / MAD| >= 3.5, a value far below the median
\* as well as one far above it; the count is 0 when MAD = 0 and never exceeds the
\* numeric count.
C24_OutliersTwoSided ==
    (ProfiledA /\ NumericColumn(calc.in[1], "a") # <<>>) =>
        LET prof == calc.out.value.columns["a"]
            xs == NumericColumn(calc.in[1], "a")
        IN  /\ prof.outliers_robust =
                   Cardinality(FarFromMedian(xs, prof.median, prof.mad, TRUE))
            /\ prof.mad = Zero => prof.outliers_robust = 0
            /\ prof.outliers_robust <= prof.numeric_count

\* A profile that counts a value far below the median, and no other.
C24_Witness_LowOutlierCounted ==
    /\ ProfiledA
    /\ NumericColumn(calc.in[1], "a") # <<>>
    /\ LET prof == calc.out.value.columns["a"]
           xs == NumericColumn(calc.in[1], "a")
       IN  /\ prof.outliers_robust = 1
           /\ \E i \in FarFromMedian(xs, prof.median, prof.mad, TRUE) :
                  RLt(xs[i], prof.median)

\* C23: the numeric extractor never raises, whatever the rows, and maps every
\* column name that appears in any row to the floats parsed from its cells, in
\* row order: the empty list for a column without numeric cells.
C23_ExtractorTotalOverAllColumns ==
    [][(calc.fn = "riftlens_run_csv" /\ calc.step = "start") =>
           /\ calc'.step = "graphs"
           /\ DOMAIN calc'.data = TableColumns(calc.rows)
           /\ \A k \in TableColumns(calc.rows) :
                  calc'.data[k] = NumericColumn(calc.rows, k)]_vars

\* C25: read_table returns exactly the first min(N, total) rows of the file for
\* a cap N, N = 0 included, in every format it reads, and the first
\* min(200000, total) rows when no cap is passed.
C25_ReadsFirstRowsUpToCap ==
    (ToolDone("read_table") /\ calc.out.raised = "none") =>
        LET items == calc.in[1].items
            rows == SelectSeq([i \in 1..Len(items) |-> i], LAMBDA i : items[i] = "row")
            cap == IF calc.in[2].t = "none" THEN MaxRowsDefault ELSE calc.in[2].v
        IN  calc.out.value = SubSeq(rows, 1, Min(cap, Len(rows)))

\* C26: when make_smoke_sample has written a sample, it holds at most --max-rows
\* data rows and at least min(--min-rows, input data rows), whatever the ratio
\* in (0, 1] and the two settings, and the kept count printed is the number of
\* data rows written.
C26_SampleWithinMinAndMax ==
    (ToolDone("make_smoke_sample") /\ calc.out.exit = 0) =>
        /\ Len(calc.out.written) <= calc.in[3]
        /\ Len(calc.out.written) >= Min(calc.in[4], calc.in[1].rows)
        /\ calc.out.printed.kept = Len(calc.out.written)

----------------------------------------------------------------------------
(* The aggregator's weights argument *)

\* C27: when --weights does not split into exactly three parts, no report is
\* ever written and no alert sent, whatever the summaries and the CSV files hold,
\* and the run ends with exit status 1.
C27_WrongWeightCountEndsWithoutReport ==
    (pc # "start" /\ Len(args.weights) # 3) =>
        /\ ~HasReport
        /\ alerts = <<>>
        /\ ~Did("write_report")
        /\ pc = "exit" => (exit_code = 1 /\ failure \in {"weights", "exception"})

\* A run given four weights has ended on the weights check, after it measured a
\* nulltrace violation.
C27_Witness_FourWeightsRefused ==
    /\ pc = "exit"
    /\ Len(args.weights) = 4
    /\ failure = "weights"
    /\ RLt(Zero, v_null)

----------------------------------------------------------------------------
(* The report files of riftlens_run_csv *)

\* The content of the file at path once the writes made so far are done: the
\* report of the last write to it.
FileContent(path) ==
    LET last == CHOOSE i \in 1..Len(calc.writes) :
                    /\ calc.writes[i].path = path
                    /\ \A j \in (i + 1)..Len(calc.writes) : calc.writes[j].path # path
    IN  calc.writes[last].report

\* C28: when riftlens_run_csv has returned, the file named by every entry of
\* reports holds the graph built with that entry's threshold, also when two
\* thresholds print alike to two decimals.
C28_EveryReportFileHoldsItsOwnGraph ==
    (calc.fn = "riftlens_run_csv" /\ calc.step = "returned") =>
        \A i \in 1..Len(calc.call.thresholds) :
            /\ calc.writes[i].thr = calc.call.thresholds[i]
            /\ FileContent(calc.writes[i].path) =
                   build_coherence_graph(calc.data, Rat(calc.call.thresholds[i], 1000))

----------------------------------------------------------------------------
(* The soak summary and the decision taken on it *)

\* C29: under the default configuration the integrity check decides BLOCK on
\* every soak summary that records a failed run (a score below 0.01), whatever
\* the voidmark summary and the drift are; and every soak summary has
\* ok_runs + failed_runs = runs.
C29_FailedSoakRunBlocks ==
    (calc.fn = "soak" /\ calc.step # "start") =>
        LET summary == calc.out.summary
        IN  /\ summary.ok_runs.v + summary.failed_runs.v = summary.runs.v
            /\ (calc.step = "checked" /\ summary.failed_runs.v >= 1) =>
                   calc.check.decision = "BLOCK"

----------------------------------------------------------------------------
(* The backups of the patchers *)

\* C30: over any number of runs of the patchers, the .bak file holds the bytes
\* the file had before its first modification: it is made before the file is
\* overwritten, never written again, and a file that no run changes has none.
C30_BackupHoldsFirstContent ==
    calc.fn = "patchers" =>
        /\ calc.first # NoFile => calc.bak = calc.first
        /\ (calc.first = NoFile /\ calc.bak # NoFile) =>
               (calc.bak = calc.file /\ calc.step \in {"replace_write", "loop_write"}
                /\ calc.new # calc.file)

====
